---------------------------- MODULE Spec2Model ----------------------------
(***************************************************************************)
(* A model of the risk-scoring and tax-computation engine of the           *)
(* repository: utils/scoring.py (text cues, price-ratio normalisation,     *)
(* CRITIC weights, composite Risk Score and Risk Level) and utils/tax.py   *)
(* (registration fee, transfer income tax, progressive land-use tax).      *)
(*                                                                         *)
(* Numbers.  Python floats are modelled by exact fixed-denominator         *)
(* rationals held as integers:                                             *)
(*   - a score in [0,1] is an integer number of 1/Unit;                    *)
(*   - an amount of money is an integer number of VndUnit VND;             *)
(*   - a rate is an integer number of 1/RateDen.                           *)
(* The input sets are chosen so that every product and quotient the code   *)
(* computes is exact in these units; floating-point rounding is not        *)
(* modelled.  The square root of CRITIC is the integer square root.        *)
(* NaN is a distinguished value outside the range of every real result;    *)
(* so are inf, None and a cell holding a word.  math.log is a table of its *)
(* values on the ratios and caps of the model.                             *)
(*                                                                         *)
(* Text.  A string is a sequence of one-character strings, so that         *)
(* re.search, \s* and str.lower are computed character by character.       *)
(* The letters d-with-stroke and a-with-breve are written "-d" and "(a"     *)
(* ("-D" and "(A" in upper case): each is one character of the text.       *)
(***************************************************************************)
EXTENDS Integers, Sequences, FiniteSets, TLC

VARIABLES
    fn,       \* the function of the last call ("none" before the first)
    args,     \* the arguments of that call
    ret,      \* what it returned
    pc,       \* compute_risk_score: the statement reached
    df,       \* compute_risk_score: the caller's dataset (SpecShared: with its version)
    cfg,      \* compute_risk_score: method, weights and the columns df has
    out,      \* compute_risk_score: its private dataset `out`
    weights,  \* compute_risk_score: the weight vector
    thr       \* compute_risk_score: the thresholds q33 and q67

callVars == <<fn, args, ret>>
riskVars == <<pc, df, cfg, out, weights, thr>>
vars == <<fn, args, ret, pc, df, cfg, out, weights, thr>>

(***************************************************************************)
(* Number representation                                                   *)
(***************************************************************************)

\* A float in [0, 1] is held as a whole number of 1/Unit.
Unit == 100

\* float("nan") / np.nan: a value no computation on reals yields.
NaN == -999999

IsNaN(x) == x = NaN

Min(a, b) == IF a <= b THEN a ELSE b

Max(a, b) == IF a >= b THEN a ELSE b

\* sum of f[i] over the integers of the finite set S
RECURSIVE SumOver(_, _)
SumOver(S, f) ==
    IF S = {} THEN 0
    ELSE LET i == CHOOSE j \in S : TRUE IN f[i] + SumOver(S \ {i}, f)

\* scoring.py lines 38-59: each regular expression is a sequence of literal
\* words (sequences of characters) separated by \s*.
LEGAL_RISK_PATTERNS == <<
    << <<"v","i">>, <<"b","ằ","n","g">> >>,
    << <<"g","i","ấ","y">>, <<"t","a","y">> >>,
    << <<"g","i","a","y">>, <<"t","a","y">> >>,
    << <<"s","ổ">>, <<"c","h","u","n","g">> >>,
    << <<"s","o">>, <<"c","h","u","n","g">> >>,
    << <<"c","h","u","n","g">>, <<"s","ổ">> >>,
    << <<"c","h","ư","a">>, <<"c","ó">>, <<"s","ổ">> >>,
    << <<"c","h","u","a">>, <<"c","o">>, <<"s","o">> >>,
    << <<"c","h","ờ">>, <<"s","ổ">> >>,
    << <<"c","h","o">>, <<"s","o">> >>,
    << <<"h","-d","m","b">> >>,
    << <<"h","ợ","p">>, <<"-d","ồ","n","g">>, <<"m","u","a">>, <<"b","á","n">> >>,
    << <<"h","o","p">>, <<"d","o","n","g">>, <<"m","u","a">>, <<"b","a","n">> >>,
    << <<"ủ","y">>, <<"q","u","y","ề","n">> >>,
    << <<"u","ỷ">>, <<"q","u","y","ề","n">> >>,
    << <<"u","y">>, <<"q","u","y","e","n">> >>,
    << <<"g","ó","p">>, <<"v","ố","n">> >>,
    << <<"g","o","p">>, <<"v","o","n">> >>,
    << <<"g","i","ấ","y">>, <<"v","i","ế","t">>, <<"t","a","y">> >>,
    << <<"g","i","a","y">>, <<"v","i","e","t">>, <<"t","a","y">> >>
>>

\* scoring.py lines 61-80: each regular expression is a sequence of literal
\* words (sequences of characters) separated by \s*.
LEGAL_CLEAR_PATTERNS == <<
    << <<"s","ổ">>, <<"h","ồ","n","g">> >>,
    << <<"s","ổ">>, <<"-d","ỏ">> >>,
    << <<"s","o">>, <<"h","o","n","g">> >>,
    << <<"s","o">>, <<"d","o">> >>,
    << <<"s","ổ">>, <<"r","i","ê","n","g">> >>,
    << <<"s","o">>, <<"r","i","e","n","g">> >>,
    << <<"c","h","í","n","h">>, <<"c","h","ủ">> >>,
    << <<"c","h","i","n","h">>, <<"c","h","u">> >>,
    << <<"p","h","á","p">>, <<"l","ý">>, <<"c","h","u","ẩ","n">> >>,
    << <<"p","h","a","p">>, <<"l","y">>, <<"c","h","u","a","n">> >>,
    << <<"h","o","à","n">>, <<"c","ô","n","g">> >>,
    << <<"h","o","a","n">>, <<"c","o","n","g">> >>,
    << <<"c","ô","n","g">>, <<"c","h","ứ","n","g">> >>,
    << <<"c","o","n","g">>, <<"c","h","u","n","g">> >>,
    << <<"s","a","n","g">>, <<"t","ê","n">> >>,
    << <<"s","a","n","g">>, <<"t","e","n">> >>,
    << <<"-d","(a","n","g">>, <<"b","ộ">> >>,
    << <<"d","a","n","g">>, <<"b","o">> >>
>>

\* scoring.py lines 94-104: each regular expression is a sequence of literal
\* words (sequences of characters) separated by \s*.
PLANNING_KEYWORDS == <<
    << <<"q","u","y">>, <<"h","o","ạ","c","h">> >>,
    << <<"q","u","y">>, <<"h","o","a","c","h">> >>,
    << <<"l","ộ">>, <<"g","i","ớ","i">> >>,
    << <<"l","o">>, <<"g","i","o","i">> >>,
    << <<"t","r","a","n","h">>, <<"c","h","ấ","p">> >>,
    << <<"t","r","a","n","h">>, <<"c","h","a","p">> >>,
    << <<"g","i","ả","i">>, <<"t","ỏ","a">> >>,
    << <<"g","i","a","i">>, <<"t","o","a">> >>,
    << <<"t","r","e","o">> >>
>>

\* scoring.py lines 106-125: each regular expression is a sequence of literal
\* words (sequences of characters) separated by \s*.
PLANNING_SAFE_PATTERNS == <<
    << <<"k","h","ô","n","g">>, <<"d","í","n","h">>, <<"q","u","y">>, <<"h","o","ạ","c","h">> >>,
    << <<"k","h","o","n","g">>, <<"d","i","n","h">>, <<"q","u","y">>, <<"h","o","a","c","h">> >>,
    << <<"k","h","ô","n","g">>, <<"n","ằ","m">>, <<"t","r","o","n","g">>, <<"q","u","y">>, <<"h","o","ạ","c","h">> >>,
    << <<"k","h","o","n","g">>, <<"n","a","m">>, <<"t","r","o","n","g">>, <<"q","u","y">>, <<"h","o","a","c","h">> >>,
    << <<"k","h","ô","n","g">>, <<"q","u","y">>, <<"h","o","ạ","c","h">> >>,
    << <<"k","h","o","n","g">>, <<"q","u","y">>, <<"h","o","a","c","h">> >>,
    << <<"k","h","ô","n","g">>, <<"l","ộ">>, <<"g","i","ớ","i">> >>,
    << <<"k","h","o","n","g">>, <<"l","o">>, <<"g","i","o","i">> >>,
    << <<"k","h","ô","n","g">>, <<"t","r","a","n","h">>, <<"c","h","ấ","p">> >>,
    << <<"k","h","o","n","g">>, <<"t","r","a","n","h">>, <<"c","h","a","p">> >>,
    << <<"k","h","ô","n","g">>, <<"b","ị">>, <<"l","ộ">>, <<"g","i","ớ","i">> >>,
    << <<"k","h","o","n","g">>, <<"b","i">>, <<"l","o">>, <<"g","i","o","i">> >>,
    << <<"k","h","ô","n","g">>, <<"b","ị">>, <<"q","u","y">>, <<"h","o","ạ","c","h">> >>,
    << <<"k","h","o","n","g">>, <<"b","i">>, <<"q","u","y">>, <<"h","o","a","c","h">> >>,
    << <<"c","ó">>, <<"g","i","ấ","y">>, <<"x","á","c">>, <<"n","h","ậ","n">>, <<"q","u","y">>, <<"h","o","ạ","c","h">> >>,
    << <<"c","o">>, <<"g","i","a","y">>, <<"x","a","c">>, <<"n","h","a","n">>, <<"q","u","y">>, <<"h","o","a","c","h">> >>,
    << <<"q","u","y">>, <<"h","o","ạ","c","h">>, <<"ổ","n">>, <<"-d","ị","n","h">> >>,
    << <<"q","u","y">>, <<"h","o","a","c","h">>, <<"o","n">>, <<"d","i","n","h">> >>
>>

\* scoring.py lines 127-144: each regular expression is a sequence of literal
\* words (sequences of characters) separated by \s*.
PLANNING_RISK_PATTERNS == <<
    << <<"d","í","n","h">>, <<"q","u","y">>, <<"h","o","ạ","c","h">> >>,
    << <<"d","i","n","h">>, <<"q","u","y">>, <<"h","o","a","c","h">> >>,
    << <<"n","ằ","m">>, <<"t","r","o","n","g">>, <<"q","u","y">>, <<"h","o","ạ","c","h">> >>,
    << <<"n","a","m">>, <<"t","r","o","n","g">>, <<"q","u","y">>, <<"h","o","a","c","h">> >>,
    << <<"b","ị">>, <<"q","u","y">>, <<"h","o","ạ","c","h">> >>,
    << <<"b","i">>, <<"q","u","y">>, <<"h","o","a","c","h">> >>,
    << <<"q","u","y">>, <<"h","o","ạ","c","h">>, <<"t","r","e","o">> >>,
    << <<"q","u","y">>, <<"h","o","a","c","h">>, <<"t","r","e","o">> >>,
    << <<"-d","a","n","g">>, <<"t","r","a","n","h">>, <<"c","h","ấ","p">> >>,
    << <<"d","a","n","g">>, <<"t","r","a","n","h">>, <<"c","h","a","p">> >>,
    << <<"t","r","a","n","h">>, <<"c","h","ấ","p">> >>,
    << <<"t","r","a","n","h">>, <<"c","h","a","p">> >>,
    << <<"l","ộ">>, <<"g","i","ớ","i">> >>,
    << <<"l","o">>, <<"g","i","o","i">> >>,
    << <<"g","i","ả","i">>, <<"t","ỏ","a">> >>,
    << <<"g","i","a","i">>, <<"t","o","a">> >>
>>

\* str.lower on the letters of the Vietnamese alphabet used by the patterns
\* (scoring.py line 31): each upper-case letter and its lower-case form.
UPPER_LETTERS == <<
    "A", "B", "C", "D", "E", "F", "G", "H", "I", "J", "K", "L", "M",
    "N", "O", "P", "Q", "R", "S", "T", "U", "V", "W", "X", "Y", "Z",
    "À", "Á", "Ê", "Í", "Ó", "Ô", "Ý", "(A", "-D", "Ư", "Ạ", "Ả", "Ấ",
    "Ẩ", "Ậ", "Ằ", "Ế", "Ề", "Ị", "Ỏ", "Ố", "Ồ", "Ổ", "Ộ", "Ớ", "Ờ",
    "Ợ", "Ủ", "Ứ", "Ỷ"
>>

LOWER_LETTERS == <<
    "a", "b", "c", "d", "e", "f", "g", "h", "i", "j", "k", "l", "m",
    "n", "o", "p", "q", "r", "s", "t", "u", "v", "w", "x", "y", "z",
    "à", "á", "ê", "í", "ó", "ô", "ý", "(a", "-d", "ư", "ạ", "ả", "ấ",
    "ẩ", "ậ", "ằ", "ế", "ề", "ị", "ỏ", "ố", "ồ", "ổ", "ộ", "ớ", "ờ",
    "ợ", "ủ", "ứ", "ỷ"
>>
(***************************************************************************)
(* Text helpers and text risk components (scoring.py lines 30-162)         *)
(***************************************************************************)

\* the lower-case form of each upper-case letter
LowerMap ==
    [c \in {UPPER_LETTERS[i] : i \in 1..Len(UPPER_LETTERS)} |->
        LOWER_LETTERS[CHOOSE i \in 1..Len(UPPER_LETTERS) : UPPER_LETTERS[i] = c]]

lower_char(c) == IF c \in DOMAIN LowerMap THEN LowerMap[c] ELSE c

\* str.lower(): character by character
lower(s) == [i \in 1..Len(s) |-> lower_char(s[i])]

\* A Python value handed in as a text: a str (kind "str", characters s) or
\* something else (None, float("nan"), a number), which carries no characters.
StrValue(s) == [kind |-> "str", s |-> s]

NonStrValue(k) == [kind |-> k, s |-> <<>>]

\* _to_text without lower()
to_text_as_written(x) == IF x.kind = "str" THEN x.s ELSE <<>>

\* _to_text: x.lower() if isinstance(x, str) else ""
to_text(x) == IF x.kind = "str" THEN lower(x.s) ELSE <<>>

\* \s of a str pattern
IsSpace(c) == c \in {" ", "\t", "\n"}

\* the literal word w stands in t at position i
WordAt(w, t, i) ==
    /\ i + Len(w) - 1 <= Len(t)
    /\ \A k \in 1..Len(w) : t[i + k - 1] = w[k]

\* the words n.. of pattern p, separated by \s*, match t from position i on
RECURSIVE MatchFrom(_, _, _, _)
MatchFrom(p, n, t, i) ==
    /\ WordAt(p[n], t, i)
    /\ \/ n = Len(p)
       \/ \E j \in (i + Len(p[n]))..Len(t) :
            /\ \A k \in (i + Len(p[n]))..(j - 1) : IsSpace(t[k])
            /\ MatchFrom(p, n + 1, t, j)

\* re.search(p, t): the pattern matches somewhere in t
re_search(p, t) == \E i \in 1..Len(t) : MatchFrom(p, 1, t, i)

\* any(re.search(p, t) for p in patterns)
any_search(patterns, t) == \E n \in 1..Len(patterns) : re_search(patterns[n], t)

\* legal_risk_score, with the precedence of the risk list swapped with the clear list
legal_risk_score_clear_first(listing_text) ==
    LET t == to_text(listing_text) IN
    IF any_search(LEGAL_CLEAR_PATTERNS, t) THEN 0
    ELSE IF any_search(LEGAL_RISK_PATTERNS, t) THEN Unit
    ELSE Unit \div 2

\* legal_risk_score (scoring.py lines 83-91)
legal_risk_score(listing_text) ==
    LET t == to_text(listing_text) IN
    IF any_search(LEGAL_RISK_PATTERNS, t) THEN Unit
    ELSE IF any_search(LEGAL_CLEAR_PATTERNS, t) THEN 0
    ELSE Unit \div 2

\* planning_risk_score, with the red-flag list checked before the safe list
planning_risk_score_risk_first(listing_text) ==
    LET t == to_text(listing_text) IN
    IF ~ any_search(PLANNING_KEYWORDS, t) THEN Unit \div 2
    ELSE IF any_search(PLANNING_RISK_PATTERNS, t) THEN Unit
    ELSE IF any_search(PLANNING_SAFE_PATTERNS, t) THEN 0
    ELSE Unit \div 2

\* planning_risk_score (scoring.py lines 147-162)
planning_risk_score(listing_text) ==
    LET t == to_text(listing_text) IN
    IF ~ any_search(PLANNING_KEYWORDS, t) THEN Unit \div 2
    ELSE IF any_search(PLANNING_SAFE_PATTERNS, t) THEN 0
    ELSE IF any_search(PLANNING_RISK_PATTERNS, t) THEN Unit
    ELSE Unit \div 2

\* The pieces listing texts are put together from: words of the cue phrases,
\* whole cue phrases, white space, upper-case letters and a tab.
Fragments == <<
    <<"s","ổ">>,
    <<"h","ồ","n","g">>,
    <<" ">>,
    <<"G","i","ấ","y","\t","T","A","Y">>,
    <<"k","h","ô","n","g">>,
    <<"q","u","y"," ","h","o","ạ","c","h">>,
    <<"d","í","n","h">>,
    <<"t","r","e","o">>
>>

\* a cue phrase as it is written in a listing: the words of its pattern with
\* one space between them
RECURSIVE JoinWords(_, _)
JoinWords(p, n) == IF n = 1 THEN p[1] ELSE JoinWords(p, n - 1) \o <<" ">> \o p[n]

PhrasesOf(patterns) == {JoinWords(patterns[n], Len(patterns[n])) : n \in 1..Len(patterns)}

\* the cue phrases of the five pattern lists
CuePhrases ==
    PhrasesOf(LEGAL_RISK_PATTERNS) \cup PhrasesOf(LEGAL_CLEAR_PATTERNS)
        \cup PhrasesOf(PLANNING_KEYWORDS) \cup PhrasesOf(PLANNING_SAFE_PATTERNS)
        \cup PhrasesOf(PLANNING_RISK_PATTERNS)
(***************************************************************************)
(* Calls of the pure functions: the arguments are drawn when the           *)
(* behaviour starts, and each action is one call on them.                  *)
(***************************************************************************)

\* at most this many fragments in a listing text
MaxFrags == 3

RECURSIVE Concat(_, _)
Concat(fs, n) == IF n = 0 THEN <<>> ELSE Concat(fs, n - 1) \o Fragments[fs[n]]

TextArgs ==
    {StrValue(Concat(fs, Len(fs))) :
        fs \in UNION {[1..n -> 1..Len(Fragments)] : n \in 0..MaxFrags}}
    \cup {StrValue(p) : p \in CuePhrases}
    \cup {NonStrValue("None"), NonStrValue("nan"), NonStrValue("int")}

NoReturn == [value |-> NaN]

\* compute_risk_score is not running
RiskIdle ==
    /\ pc = "idle"
    /\ df = <<>>
    /\ cfg = [method |-> "critic"]
    /\ out = <<>>
    /\ weights = <<>>
    /\ thr = <<>>

InitText ==
    /\ fn = "none"
    /\ args \in TextArgs
    /\ ret = NoReturn
    /\ RiskIdle

CallLegalRiskScore ==
    /\ fn = "none"
    /\ fn' = "legal_risk_score"
    /\ ret' = [value |-> legal_risk_score(args)]
    /\ UNCHANGED <<args, pc, df, cfg, out, weights, thr>>

CallPlanningRiskScore ==
    /\ fn = "none"
    /\ fn' = "planning_risk_score"
    /\ ret' = [value |-> planning_risk_score(args)]
    /\ UNCHANGED <<args, pc, df, cfg, out, weights, thr>>

NextText == CallLegalRiskScore \/ CallPlanningRiskScore

SpecText == InitText /\ [][NextText]_vars

\* the lower-cased text of the call
CalledText == to_text(args)

LegalRiskMatches ==
    \E n \in 1..Len(LEGAL_RISK_PATTERNS) : re_search(LEGAL_RISK_PATTERNS[n], CalledText)

LegalClearMatches ==
    \E n \in 1..Len(LEGAL_CLEAR_PATTERNS) : re_search(LEGAL_CLEAR_PATTERNS[n], CalledText)

\* C1: legal_risk_score returns 1.0 when a risk pattern matches the lower-cased
\* text (also when a clear pattern matches too), else 0.0 when a clear pattern
\* matches, else 0.5; it returns nothing else.
C1_LegalPrecedence ==
    fn = "legal_risk_score" =>
        /\ ret.value \in {0, Unit \div 2, Unit}
        /\ LegalRiskMatches => ret.value = Unit
        /\ (~ LegalRiskMatches /\ LegalClearMatches) => ret.value = 0
        /\ (~ LegalRiskMatches /\ ~ LegalClearMatches) => ret.value = Unit \div 2

\* a text with both a risk and a clear cue has been scored 1.0
C1_Witness ==
    /\ fn = "legal_risk_score"
    /\ args.kind = "str"
    /\ LegalRiskMatches
    /\ LegalClearMatches
    /\ ret.value = Unit

PlanningKeywordMatches ==
    \E n \in 1..Len(PLANNING_KEYWORDS) : re_search(PLANNING_KEYWORDS[n], CalledText)

PlanningSafeMatches ==
    \E n \in 1..Len(PLANNING_SAFE_PATTERNS) : re_search(PLANNING_SAFE_PATTERNS[n], CalledText)

PlanningRiskMatches ==
    \E n \in 1..Len(PLANNING_RISK_PATTERNS) : re_search(PLANNING_RISK_PATTERNS[n], CalledText)

\* C2: planning_risk_score returns 0.5 when no keyword matches; otherwise 0.0
\* when a safe pattern matches (also when a risk pattern matches too);
\* otherwise 1.0 when a risk pattern matches; otherwise (keyword only) 0.5.
C2_PlanningPrecedence ==
    fn = "planning_risk_score" =>
        /\ ~ PlanningKeywordMatches => ret.value = Unit \div 2
        /\ (PlanningKeywordMatches /\ PlanningSafeMatches) => ret.value = 0
        /\ (PlanningKeywordMatches /\ ~ PlanningSafeMatches /\ PlanningRiskMatches)
              => ret.value = Unit
        /\ (PlanningKeywordMatches /\ ~ PlanningSafeMatches /\ ~ PlanningRiskMatches)
              => ret.value = Unit \div 2

\* a text with a keyword, a safe phrase and a red flag has been scored 0.0
C2_Witness ==
    /\ fn = "planning_risk_score"
    /\ PlanningKeywordMatches
    /\ PlanningSafeMatches
    /\ PlanningRiskMatches
    /\ ret.value = 0


\* the letters with diacritics that the cue phrases are written with
ACCENTED_LETTERS == <<
    "à", "á", "ê", "í", "ó", "ô", "ý", "(a", "-d", "ư", "ạ", "ả", "ấ",
    "ẩ", "ậ", "ằ", "ế", "ề", "ị", "ỏ", "ố", "ồ", "ổ", "ộ", "ớ", "ờ",
    "ợ", "ủ", "ứ", "ỷ"
>>

\* the same letters without their diacritics
PLAIN_LETTERS == <<
    "a", "a", "e", "i", "o", "o", "y", "a", "d", "u", "a", "a", "a",
    "a", "a", "a", "e", "e", "i", "o", "o", "o", "o", "o", "o", "o",
    "o", "u", "u", "y"
>>

\* the upper-case form of each lower-case letter
UpperMap ==
    [c \in {LOWER_LETTERS[i] : i \in 1..Len(LOWER_LETTERS)} |->
        UPPER_LETTERS[CHOOSE i \in 1..Len(LOWER_LETTERS) : LOWER_LETTERS[i] = c]]

\* str.upper(): character by character
upper(s) == [i \in 1..Len(s) |-> IF s[i] \in DOMAIN UpperMap THEN UpperMap[s[i]] ELSE s[i]]

\* the score the function of the call gives to text x
ScoreOf(x) ==
    IF fn = "legal_risk_score" THEN legal_risk_score(x) ELSE planning_risk_score(x)

TextCalled == fn \in {"legal_risk_score", "planning_risk_score"}

\* C17: legal_risk_score and planning_risk_score return a score and 0.5 for
\* None, NaN, a number and the empty text, and a text and its upper-cased form
\* get the same score.
C17_NeutralAndCaseInsensitive ==
    TextCalled =>
        /\ DOMAIN ret = {"value"}
        /\ ret.value \in {0, Unit \div 2, Unit}
        /\ (args.kind # "str" \/ args.s = <<>>) => ret.value = Unit \div 2
        /\ args.kind = "str" => ret.value = ScoreOf(StrValue(upper(args.s)))

\* a text with upper-case letters has been scored 1.0 by its cue
C17_Witness ==
    /\ fn = "legal_risk_score"
    /\ args.kind = "str"
    /\ \E i \in 1..Len(args.s) : args.s[i] \in DOMAIN LowerMap
    /\ \E i \in 1..Len(args.s) : args.s[i] \in DOMAIN UpperMap
    /\ ret.value = Unit

\* the base letter of each letter with diacritics
StripMap ==
    [c \in {ACCENTED_LETTERS[i] : i \in 1..Len(ACCENTED_LETTERS)} |->
        PLAIN_LETTERS[CHOOSE i \in 1..Len(ACCENTED_LETTERS) : ACCENTED_LETTERS[i] = c]]

\* the text with its diacritics removed
without_diacritics(s) ==
    [i \in 1..Len(s) |-> IF s[i] \in DOMAIN StripMap THEN StripMap[s[i]] ELSE s[i]]

\* C18: a cue phrase of the five pattern lists written with diacritics and the
\* same phrase with its diacritics removed get the same legal_risk_score and
\* the same planning_risk_score.
C18_DiacriticVariants ==
    (TextCalled /\ args.kind = "str" /\ args.s \in CuePhrases) =>
        ret.value = ScoreOf(StrValue(without_diacritics(args.s)))
(***************************************************************************)
(* Tax and fee functions (tax.py)                                          *)
(***************************************************************************)

\* An amount of money is a whole number of VndUnit VND.
VndUnit == 50

\* 1_000_000.0 VND (million VND per m2 to VND per m2), in units of VndUnit
Million == 20000

\* 1_000_000_000.0 VND (billion VND to VND), in units of VndUnit
Billion == 20000000

\* A rate is a whole number of 1/RateDen (0.005 is 50, 0.0003 is 3).
RateDen == 10000

\* A Python value handed in as a number: a number v, or a value float() rejects
\* (None, a word), or an argument left out of the call.
Num(v) == [k |-> "num", v |-> v]

NotNum(k) == [k |-> k, v |-> 0]

Omitted == [k |-> "omitted", v |-> 0]

\* the value of parameter x whose default in the signature is d
Param(x, d) == IF x.k = "omitted" THEN Num(d) ELSE x

\* _to_float (tax.py lines 14-18): float(x), or the default when float(x) raises
to_float(x, default) == IF x.k = "num" THEN x.v ELSE default

\* amount * rate, for an amount that is a whole number of millions of VND
TimesRate(amount, rate) == (amount \div RateDen) * rate

\* x * 0.5, for an amount of money
Half(x) == x \div 2

\* default rate of registration_fee_land_vnd: 0.005
DefaultFeeRate == 50

\* default rate of pit_transfer_tax_vnd: 0.02
DefaultPitRate == 200

\* default quota_m2 of non_agri_land_tax_vnd: 160.0
DefaultQuota == 160

\* registration_fee_land_vnd, charging the fee also when exempt
registration_fee_land_vnd_ignoring_exempt(area_m2, gov_price_mil_m2, rate_arg, exempt) ==
    LET rate == Param(rate_arg, DefaultFeeRate)
        area == Max(to_float(area_m2, 0), 0)
        gov == Max(to_float(gov_price_mil_m2, 0), 0)
        base_value_vnd == area * gov * Million
    IN  [base_value_vnd |-> base_value_vnd,
         fee_vnd |-> TimesRate(base_value_vnd, to_float(rate, 0)),
         rate |-> to_float(rate, 0),
         exempt |-> exempt]

\* registration_fee_land_vnd, with the rate's own default where float(rate) raises
registration_fee_land_vnd_default_rate(area_m2, gov_price_mil_m2, rate_arg, exempt) ==
    LET rate == Param(rate_arg, DefaultFeeRate)
        area == Max(to_float(area_m2, 0), 0)
        gov == Max(to_float(gov_price_mil_m2, 0), 0)
        base_value_vnd == area * gov * Million
        fee_vnd == IF exempt THEN 0
                   ELSE TimesRate(base_value_vnd, to_float(rate, DefaultFeeRate))
    IN  [base_value_vnd |-> base_value_vnd,
         fee_vnd |-> fee_vnd,
         rate |-> to_float(rate, DefaultFeeRate),
         exempt |-> exempt]

\* registration_fee_land_vnd (tax.py lines 20-47)
registration_fee_land_vnd(area_m2, gov_price_mil_m2, rate_arg, exempt) ==
    LET rate == Param(rate_arg, DefaultFeeRate)
        area == Max(to_float(area_m2, 0), 0)
        gov == Max(to_float(gov_price_mil_m2, 0), 0)
        base_value_vnd == area * gov * Million
        fee_vnd == IF exempt THEN 0 ELSE TimesRate(base_value_vnd, to_float(rate, 0))
    IN  [base_value_vnd |-> base_value_vnd,
         fee_vnd |-> fee_vnd,
         rate |-> to_float(rate, 0),
         exempt |-> exempt]

\* pit_transfer_tax_vnd (tax.py lines 49-72)
pit_transfer_tax_vnd(transfer_price_billion_vnd, rate_arg, exempt) ==
    LET rate == Param(rate_arg, DefaultPitRate)
        base_vnd == Max(to_float(transfer_price_billion_vnd, 0), 0) * Billion
        pit_vnd == IF exempt THEN 0 ELSE TimesRate(base_vnd, to_float(rate, 0))
    IN  [tax_base_vnd |-> base_vnd,
         pit_vnd |-> pit_vnd,
         rate |-> to_float(rate, 0),
         exempt |-> exempt]

\* the relief values of ReliefType (tax.py lines 6-12)
ReliefType ==
    {"none", "exempt_within_quota", "reduce50_within_quota", "exempt_all", "reduce50_all"}

\* None handed in as relief
PyNone == "<None>"

\* the relief values that are false in `relief or "none"`
Falsy == {"", PyNone}

\* segment areas, without the upper limit of 2 * quota on the second segment
SegmentAreasUnclamped(area, quota) ==
    IF quota > 0
    THEN [within_quota_m2 |-> Min(area, quota),
          over_quota_to_3x_m2 |-> Max(area - quota, 0),
          over_3x_quota_m2 |-> Max(area - 3 * quota, 0)]
    ELSE [within_quota_m2 |-> area, over_quota_to_3x_m2 |-> 0, over_3x_quota_m2 |-> 0]

\* segment areas, with the third segment starting at 2 * quota
SegmentAreasThirdFromTwice(area, quota) ==
    IF quota > 0
    THEN [within_quota_m2 |-> Min(area, quota),
          over_quota_to_3x_m2 |-> Min(Max(area - quota, 0), 2 * quota),
          over_3x_quota_m2 |-> Max(area - 2 * quota, 0)]
    ELSE [within_quota_m2 |-> area, over_quota_to_3x_m2 |-> 0, over_3x_quota_m2 |-> 0]

\* non_agri_land_tax_vnd, segment areas a1, a2, a3 (tax.py lines 103-114)
SegmentAreas(area, quota) ==
    IF quota > 0
    THEN [within_quota_m2 |-> Min(area, quota),
          over_quota_to_3x_m2 |-> Min(Max(area - quota, 0), 2 * quota),
          over_3x_quota_m2 |-> Max(area - 3 * quota, 0)]
    ELSE [within_quota_m2 |-> area, over_quota_to_3x_m2 |-> 0, over_3x_quota_m2 |-> 0]

\* r1 = 0.0003
r1 == 3

\* r2 = 0.0007
r2 == 7

\* r3 = 0.0015
r3 == 15

\* segment taxes, with the rate of bracket 2 used for bracket 3 as well
SegmentTaxesFlatTop(seg, gov) ==
    LET tax1 == TimesRate(seg.within_quota_m2 * gov * Million, r1)
        tax2 == TimesRate(seg.over_quota_to_3x_m2 * gov * Million, r2)
        tax3 == TimesRate(seg.over_3x_quota_m2 * gov * Million, r2)
    IN  [within_quota |-> tax1, over_quota_to_3x |-> tax2, over_3x_quota |-> tax3,
         total |-> tax1 + tax2 + tax3]

\* non_agri_land_tax_vnd, segment taxes and total before relief (tax.py lines 116-125)
SegmentTaxes(seg, gov) ==
    LET tax1 == TimesRate(seg.within_quota_m2 * gov * Million, r1)
        tax2 == TimesRate(seg.over_quota_to_3x_m2 * gov * Million, r2)
        tax3 == TimesRate(seg.over_3x_quota_m2 * gov * Million, r3)
    IN  [within_quota |-> tax1, over_quota_to_3x |-> tax2, over_3x_quota |-> tax3,
         total |-> tax1 + tax2 + tax3]

\* relief, with exempt_within_quota exempting the whole tax
ApplyReliefExemptTooMuch(relief, tax) ==
    LET after ==
            IF relief \in {"exempt_within_quota", "exempt_all"}
            THEN [within_quota |-> 0, over_quota_to_3x |-> 0, over_3x_quota |-> 0]
            ELSE IF relief = "reduce50_within_quota"
            THEN [within_quota |-> Half(tax.within_quota),
                  over_quota_to_3x |-> tax.over_quota_to_3x,
                  over_3x_quota |-> tax.over_3x_quota]
            ELSE IF relief = "reduce50_all"
            THEN [within_quota |-> Half(tax.within_quota),
                  over_quota_to_3x |-> Half(tax.over_quota_to_3x),
                  over_3x_quota |-> Half(tax.over_3x_quota)]
            ELSE [within_quota |-> tax.within_quota,
                  over_quota_to_3x |-> tax.over_quota_to_3x,
                  over_3x_quota |-> tax.over_3x_quota]
    IN  [within_quota |-> after.within_quota,
         over_quota_to_3x |-> after.over_quota_to_3x,
         over_3x_quota |-> after.over_3x_quota,
         total |-> after.within_quota + after.over_quota_to_3x + after.over_3x_quota]

\* relief, with a value outside ReliefType exempting the whole tax
ApplyReliefUnknownExempts(relief, tax) ==
    LET after ==
            IF relief = "exempt_within_quota"
            THEN [within_quota |-> 0,
                  over_quota_to_3x |-> tax.over_quota_to_3x,
                  over_3x_quota |-> tax.over_3x_quota]
            ELSE IF relief = "reduce50_within_quota"
            THEN [within_quota |-> Half(tax.within_quota),
                  over_quota_to_3x |-> tax.over_quota_to_3x,
                  over_3x_quota |-> tax.over_3x_quota]
            ELSE IF relief = "reduce50_all"
            THEN [within_quota |-> Half(tax.within_quota),
                  over_quota_to_3x |-> Half(tax.over_quota_to_3x),
                  over_3x_quota |-> Half(tax.over_3x_quota)]
            ELSE IF relief = "none"
            THEN [within_quota |-> tax.within_quota,
                  over_quota_to_3x |-> tax.over_quota_to_3x,
                  over_3x_quota |-> tax.over_3x_quota]
            ELSE [within_quota |-> 0, over_quota_to_3x |-> 0, over_3x_quota |-> 0]
    IN  [within_quota |-> after.within_quota,
         over_quota_to_3x |-> after.over_quota_to_3x,
         over_3x_quota |-> after.over_3x_quota,
         total |-> after.within_quota + after.over_quota_to_3x + after.over_3x_quota]

\* non_agri_land_tax_vnd, the relief branches and the total after relief
\* (tax.py lines 129-146)
ApplyRelief(relief, tax) ==
    LET after ==
            IF relief = "exempt_within_quota"
            THEN [within_quota |-> 0,
                  over_quota_to_3x |-> tax.over_quota_to_3x,
                  over_3x_quota |-> tax.over_3x_quota]
            ELSE IF relief = "reduce50_within_quota"
            THEN [within_quota |-> Half(tax.within_quota),
                  over_quota_to_3x |-> tax.over_quota_to_3x,
                  over_3x_quota |-> tax.over_3x_quota]
            ELSE IF relief = "exempt_all"
            THEN [within_quota |-> 0, over_quota_to_3x |-> 0, over_3x_quota |-> 0]
            ELSE IF relief = "reduce50_all"
            THEN [within_quota |-> Half(tax.within_quota),
                  over_quota_to_3x |-> Half(tax.over_quota_to_3x),
                  over_3x_quota |-> Half(tax.over_3x_quota)]
            ELSE [within_quota |-> tax.within_quota,
                  over_quota_to_3x |-> tax.over_quota_to_3x,
                  over_3x_quota |-> tax.over_3x_quota]
    IN  [within_quota |-> after.within_quota,
         over_quota_to_3x |-> after.over_quota_to_3x,
         over_3x_quota |-> after.over_3x_quota,
         total |-> after.within_quota + after.over_quota_to_3x + after.over_3x_quota]

\* non_agri_land_tax_vnd (tax.py lines 74-171)
non_agri_land_tax_vnd(area_m2, gov_price_mil_m2, quota_arg, relief_arg) ==
    LET quota_m2 == Param(quota_arg, DefaultQuota)
        area == Max(to_float(area_m2, 0), 0)
        gov == Max(to_float(gov_price_mil_m2, 0), 0)
        quota == Max(to_float(quota_m2, 0), 0)
        seg == SegmentAreas(area, quota)
        before == SegmentTaxes(seg, gov)
        relief == IF relief_arg \in Falsy THEN "none" ELSE relief_arg
    IN  [area_m2 |-> area,
         quota_m2 |-> quota,
         gov_price_mil_m2 |-> gov,
         segments |-> seg,
         rates |-> [r1 |-> r1, r2 |-> r2, r3 |-> r3],
         tax_vnd |-> ApplyRelief(relief, before),
         tax_vnd_before_relief |-> before,
         relief |-> relief]

(***************************************************************************)
(* Calls of the tax functions                                              *)
(***************************************************************************)

AreaArgs ==
    {Num(-20), Num(0), Num(80), Num(160), Num(200), Num(480), Num(500), NotNum("None")}

GovArgs == {Num(-5), Num(0), Num(100), Num(190), NotNum("str")}

QuotaArgs == {Omitted, Num(-160), Num(0), Num(60), Num(160), NotNum("None")}

RateArgs == {Omitted, Num(-50), Num(0), Num(50), Num(200), NotNum("str")}

PriceArgs == {Num(-3), Num(0), Num(1), Num(25), NotNum("None")}

ReliefArgs == ReliefType \cup Falsy \cup {"reduce25_all"}

FeeArgs ==
    {[f |-> "registration_fee_land_vnd", area_m2 |-> a, gov_price_mil_m2 |-> g,
      rate |-> r, exempt |-> FALSE] :
        a \in AreaArgs, g \in GovArgs, r \in RateArgs}

PitArgs ==
    {[f |-> "pit_transfer_tax_vnd", transfer_price_billion_vnd |-> p,
      rate |-> r, exempt |-> FALSE] :
        p \in PriceArgs, r \in RateArgs}

LandArgs ==
    {[f |-> "non_agri_land_tax_vnd", area_m2 |-> a, gov_price_mil_m2 |-> g,
      quota_m2 |-> q, relief |-> "none"] :
        a \in AreaArgs, g \in GovArgs, q \in QuotaArgs}

InitTax ==
    /\ fn = "none"
    /\ args \in FeeArgs \cup PitArgs \cup LandArgs
    /\ ret = NoReturn
    /\ RiskIdle

CallRegistrationFee ==
    /\ args.f = "registration_fee_land_vnd"
    /\ \E exempt \in BOOLEAN :
        /\ args' = [args EXCEPT !.exempt = exempt]
        /\ ret' = registration_fee_land_vnd(args.area_m2, args.gov_price_mil_m2,
                                            args.rate, exempt)
    /\ fn' = "registration_fee_land_vnd"
    /\ UNCHANGED riskVars

CallPitTransferTax ==
    /\ args.f = "pit_transfer_tax_vnd"
    /\ \E exempt \in BOOLEAN :
        /\ args' = [args EXCEPT !.exempt = exempt]
        /\ ret' = pit_transfer_tax_vnd(args.transfer_price_billion_vnd, args.rate, exempt)
    /\ fn' = "pit_transfer_tax_vnd"
    /\ UNCHANGED riskVars

CallNonAgriLandTax ==
    /\ args.f = "non_agri_land_tax_vnd"
    /\ \E relief \in ReliefArgs :
        /\ args' = [args EXCEPT !.relief = relief]
        /\ ret' = non_agri_land_tax_vnd(args.area_m2, args.gov_price_mil_m2,
                                        args.quota_m2, relief)
    /\ fn' = "non_agri_land_tax_vnd"
    /\ UNCHANGED riskVars

NextTax == CallRegistrationFee \/ CallPitTransferTax \/ CallNonAgriLandTax

SpecTax == InitTax /\ [][NextTax]_vars

\* the number handed in as x, 0 when it is not a number, d when it is left out
Given(x, d) == IF x.k = "num" THEN x.v ELSE IF x.k = "omitted" THEN d ELSE 0

Floored(v) == IF v < 0 THEN 0 ELSE v

\* C7: the floored area is split into within_quota = min(area, quota),
\* over_quota_to_3x = min(max(area - quota, 0), 2*quota) and
\* over_3x_quota = max(area - 3*quota, 0) when quota > 0; when quota <= 0 the whole
\* area is the first segment; area 500 with quota 160 gives 160, 320, 20.
C7_Segments ==
    fn = "non_agri_land_tax_vnd" =>
        LET area == Floored(Given(args.area_m2, 0))
            quota == Given(args.quota_m2, DefaultQuota)
            s == ret.segments
        IN  /\ quota > 0 =>
                /\ s.within_quota_m2 = (IF area < quota THEN area ELSE quota)
                /\ s.over_quota_to_3x_m2 =
                      (IF area <= quota THEN 0
                       ELSE IF area - quota >= 2 * quota THEN 2 * quota
                       ELSE area - quota)
                /\ s.over_3x_quota_m2 = (IF area > 3 * quota THEN area - 3 * quota ELSE 0)
            /\ quota <= 0 =>
                /\ s.within_quota_m2 = area
                /\ s.over_quota_to_3x_m2 = 0
                /\ s.over_3x_quota_m2 = 0
            /\ (area = 500 /\ quota = 160) =>
                /\ s.within_quota_m2 = 160
                /\ s.over_quota_to_3x_m2 = 320
                /\ s.over_3x_quota_m2 = 20

\* the land tax has been computed for area 500 and quota 160: segments 160, 320, 20
C7_Witness ==
    /\ fn = "non_agri_land_tax_vnd"
    /\ args.area_m2 = Num(500)
    /\ args.quota_m2 = Num(160)
    /\ ret.segments.within_quota_m2 = 160
    /\ ret.segments.over_quota_to_3x_m2 = 320
    /\ ret.segments.over_3x_quota_m2 = 20

\* C8: each of the five relief values changes the bracket amounts in its own
\* way (none: nothing; exempt_within_quota: bracket 1 to 0 only;
\* reduce50_within_quota: bracket 1 halved only; exempt_all: all to 0;
\* reduce50_all: all halved), and the total after relief is the sum of the
\* three amounts after relief.
C8_Relief ==
    fn = "non_agri_land_tax_vnd" =>
        LET b == ret.tax_vnd_before_relief
            a == ret.tax_vnd
            r == args.relief
        IN  /\ r = "none" =>
                /\ a.within_quota = b.within_quota
                /\ a.over_quota_to_3x = b.over_quota_to_3x
                /\ a.over_3x_quota = b.over_3x_quota
            /\ r = "exempt_within_quota" =>
                /\ a.within_quota = 0
                /\ a.over_quota_to_3x = b.over_quota_to_3x
                /\ a.over_3x_quota = b.over_3x_quota
            /\ r = "reduce50_within_quota" =>
                /\ 2 * a.within_quota = b.within_quota
                /\ a.over_quota_to_3x = b.over_quota_to_3x
                /\ a.over_3x_quota = b.over_3x_quota
            /\ r = "exempt_all" =>
                /\ a.within_quota = 0
                /\ a.over_quota_to_3x = 0
                /\ a.over_3x_quota = 0
            /\ r = "reduce50_all" =>
                /\ 2 * a.within_quota = b.within_quota
                /\ 2 * a.over_quota_to_3x = b.over_quota_to_3x
                /\ 2 * a.over_3x_quota = b.over_3x_quota
            /\ a.total = a.within_quota + a.over_quota_to_3x + a.over_3x_quota

\* exempt_within_quota has been applied to a tax with all three brackets charged
C8_Witness ==
    /\ fn = "non_agri_land_tax_vnd"
    /\ args.relief = "exempt_within_quota"
    /\ ret.tax_vnd_before_relief.within_quota > 0
    /\ ret.tax_vnd_before_relief.over_quota_to_3x > 0
    /\ ret.tax_vnd_before_relief.over_3x_quota > 0
    /\ ret.tax_vnd.within_quota = 0
    /\ ret.tax_vnd.over_quota_to_3x = ret.tax_vnd_before_relief.over_quota_to_3x
    /\ ret.tax_vnd.over_3x_quota = ret.tax_vnd_before_relief.over_3x_quota

\* the amounts before relief are segment_area * gov_price * rate, with their sum
C9_BeforeRelief ==
    fn = "non_agri_land_tax_vnd" =>
        LET gov == Floored(Given(args.gov_price_mil_m2, 0))
            s == ret.segments
            b == ret.tax_vnd_before_relief
            perM2 == gov * (Million \div RateDen)
        IN  /\ ret.rates = [r1 |-> 3, r2 |-> 7, r3 |-> 15]
            /\ b.within_quota = s.within_quota_m2 * perM2 * 3
            /\ b.over_quota_to_3x = s.over_quota_to_3x_m2 * perM2 * 7
            /\ b.over_3x_quota = s.over_3x_quota_m2 * perM2 * 15
            /\ b.total = b.within_quota + b.over_quota_to_3x + b.over_3x_quota

\* a call with another relief on the same area, price and quota returns the same
\* amounts before relief, segment areas and rates
C9_SameForEveryRelief ==
    (fn = "non_agri_land_tax_vnd" /\ fn' = "non_agri_land_tax_vnd") =>
        /\ ret'.tax_vnd_before_relief = ret.tax_vnd_before_relief
        /\ ret'.segments = ret.segments
        /\ ret'.rates = ret.rates

\* C9: the result carries the amounts before relief next to those after relief:
\* each amount before relief is segment_area * gov_price * rate with rates
\* 0.03%, 0.07%, 0.15%, their total is their sum, and for the same area, price
\* and quota the amounts before relief, the segment areas and the rates are the
\* same for every relief value.
C9_PreReliefExposed == [](C9_BeforeRelief) /\ [][C9_SameForEveryRelief]_vars

\* exempt_all has been applied: the total before relief is still reported
C9_Witness ==
    /\ fn = "non_agri_land_tax_vnd"
    /\ args.relief = "exempt_all"
    /\ ret.tax_vnd.total = 0
    /\ ret.tax_vnd_before_relief.over_3x_quota > 0
    /\ ret.tax_vnd_before_relief.total > ret.tax_vnd_before_relief.over_3x_quota

\* C10: registration_fee_land_vnd returns base * rate (base = area * gov_price,
\* default rate 0.5%) and pit_transfer_tax_vnd returns base * rate (base =
\* transfer price, default rate 2%); with the exempt flag set each returns 0 and
\* the same base; area 80 at 190 million/m2 gives 76 million VND, 25 billion
\* gives 0.5 billion VND.
C10_FlatRate ==
    /\ fn = "registration_fee_land_vnd" =>
        LET area == Floored(Given(args.area_m2, 0))
            gov == Floored(Given(args.gov_price_mil_m2, 0))
            rate == Given(args.rate, 50)
        IN  /\ ret.base_value_vnd = area * gov * Million
            /\ args.exempt => ret.fee_vnd = 0
            /\ ~ args.exempt => ret.fee_vnd = area * gov * rate * (Million \div RateDen)
            /\ (args.area_m2 = Num(80) /\ args.gov_price_mil_m2 = Num(190)
                    /\ args.rate = Omitted /\ ~ args.exempt)
                  => ret.fee_vnd = 76 * Million
    /\ fn = "pit_transfer_tax_vnd" =>
        LET price == Floored(Given(args.transfer_price_billion_vnd, 0))
            rate == Given(args.rate, 200)
        IN  /\ ret.tax_base_vnd = price * Billion
            /\ args.exempt => ret.pit_vnd = 0
            /\ ~ args.exempt => ret.pit_vnd = price * rate * (Billion \div RateDen)
            /\ (args.transfer_price_billion_vnd = Num(25) /\ args.rate = Omitted
                    /\ ~ args.exempt)
                  => 2 * ret.pit_vnd = Billion

\* an exempt registration fee on a positive base has been computed
C10_Witness ==
    /\ fn = "registration_fee_land_vnd"
    /\ args.exempt
    /\ args.area_m2 = Num(80)
    /\ args.gov_price_mil_m2 = Num(190)
    /\ ret.base_value_vnd = 80 * 190 * Million
    /\ ret.fee_vnd = 0


\* the amounts a call of a tax function has returned
ReturnedAmounts ==
    IF fn = "registration_fee_land_vnd" THEN {ret.base_value_vnd, ret.fee_vnd}
    ELSE IF fn = "pit_transfer_tax_vnd" THEN {ret.tax_base_vnd, ret.pit_vnd}
    ELSE IF fn = "non_agri_land_tax_vnd"
    THEN {ret.area_m2, ret.quota_m2, ret.gov_price_mil_m2,
          ret.segments.within_quota_m2, ret.segments.over_quota_to_3x_m2,
          ret.segments.over_3x_quota_m2,
          ret.tax_vnd_before_relief.within_quota,
          ret.tax_vnd_before_relief.over_quota_to_3x,
          ret.tax_vnd_before_relief.over_3x_quota,
          ret.tax_vnd_before_relief.total,
          ret.tax_vnd.within_quota, ret.tax_vnd.over_quota_to_3x,
          ret.tax_vnd.over_3x_quota, ret.tax_vnd.total}
    ELSE {}

\* C11: every input of the three tax functions, the rate included, is floored
\* at 0 before use, so no returned amount (fee, tax, base value, segment area,
\* bracket tax, total) is negative, whatever numbers are handed in.
C11_NoNegativeAmount == \A v \in ReturnedAmounts : v >= 0

\* the argument x with a value float() rejects replaced by the number 0
Zeroed(x) == IF x.k \in {"num", "omitted"} THEN x ELSE Num(0)

\* C12: the three tax functions return their result record for every input,
\* and a value float() rejects (None, a word) handed in as area, price, quota
\* or rate gives the result that the number 0 in its place gives.
C12_Total ==
    /\ fn = "registration_fee_land_vnd" =>
        /\ DOMAIN ret = {"base_value_vnd", "fee_vnd", "rate", "exempt"}
        /\ ret = registration_fee_land_vnd(Zeroed(args.area_m2),
                     Zeroed(args.gov_price_mil_m2), Zeroed(args.rate), args.exempt)
        /\ args.rate.k \notin {"num", "omitted"} => (ret.rate = 0 /\ ret.fee_vnd = 0)
        /\ (args.area_m2.k # "num" \/ args.gov_price_mil_m2.k # "num") =>
              (ret.base_value_vnd = 0 /\ ret.fee_vnd = 0)
    /\ fn = "pit_transfer_tax_vnd" =>
        /\ DOMAIN ret = {"tax_base_vnd", "pit_vnd", "rate", "exempt"}
        /\ ret = pit_transfer_tax_vnd(Zeroed(args.transfer_price_billion_vnd),
                     Zeroed(args.rate), args.exempt)
        /\ args.rate.k \notin {"num", "omitted"} => (ret.rate = 0 /\ ret.pit_vnd = 0)
        /\ args.transfer_price_billion_vnd.k # "num" =>
              (ret.tax_base_vnd = 0 /\ ret.pit_vnd = 0)
    /\ fn = "non_agri_land_tax_vnd" =>
        /\ DOMAIN ret = {"area_m2", "quota_m2", "gov_price_mil_m2", "segments",
                         "rates", "tax_vnd", "tax_vnd_before_relief", "relief"}
        /\ ret = non_agri_land_tax_vnd(Zeroed(args.area_m2),
                     Zeroed(args.gov_price_mil_m2), Zeroed(args.quota_m2), args.relief)
        /\ args.area_m2.k # "num" =>
              (ret.area_m2 = 0 /\ ret.segments.within_quota_m2 = 0
                  /\ ret.tax_vnd_before_relief.total = 0)
        /\ args.gov_price_mil_m2.k # "num" =>
              (ret.gov_price_mil_m2 = 0 /\ ret.tax_vnd_before_relief.total = 0)
        /\ args.quota_m2.k \notin {"num", "omitted"} =>
              (ret.quota_m2 = 0 /\ ret.segments.within_quota_m2 = ret.area_m2
                  /\ ret.segments.over_quota_to_3x_m2 = 0
                  /\ ret.segments.over_3x_quota_m2 = 0)

\* a registration fee has been computed with a word handed in as the rate
C12_Witness ==
    /\ fn = "registration_fee_land_vnd"
    /\ args.area_m2 = Num(80)
    /\ args.gov_price_mil_m2 = Num(190)
    /\ args.rate = NotNum("str")
    /\ ~ args.exempt
    /\ ret.base_value_vnd > 0
    /\ ret.fee_vnd = 0

\* C23: the three segment areas non_agri_land_tax_vnd returns are each >= 0 and
\* add up to the area floored at 0, for every area, quota and price: no part
\* of the area is in two segments or in none.
C23_SegmentsPartition ==
    fn = "non_agri_land_tax_vnd" =>
        LET s == ret.segments
            area == Floored(Given(args.area_m2, 0))
        IN  /\ s.within_quota_m2 >= 0
            /\ s.over_quota_to_3x_m2 >= 0
            /\ s.over_3x_quota_m2 >= 0
            /\ s.within_quota_m2 + s.over_quota_to_3x_m2 + s.over_3x_quota_m2 = area

\* an area beyond three quotas has been split into three segments, all used
C23_Witness ==
    /\ fn = "non_agri_land_tax_vnd"
    /\ args.area_m2 = Num(200)
    /\ args.quota_m2 = Num(60)
    /\ ret.segments.within_quota_m2 = 60
    /\ ret.segments.over_quota_to_3x_m2 = 120
    /\ ret.segments.over_3x_quota_m2 = 20

\* C25: a relief value outside the five of ReliefType leaves every amount as
\* before relief and is returned as it was handed in; None and the empty text
\* are returned as "none"; for every relief value the total after relief is
\* not greater than the total before relief.
C25_UnknownRelief ==
    fn = "non_agri_land_tax_vnd" =>
        LET b == ret.tax_vnd_before_relief
            a == ret.tax_vnd
        IN  /\ args.relief \notin ReliefType =>
                /\ a.within_quota = b.within_quota
                /\ a.over_quota_to_3x = b.over_quota_to_3x
                /\ a.over_3x_quota = b.over_3x_quota
                /\ a.total = b.total
            /\ args.relief \notin (ReliefType \cup {"", PyNone}) => ret.relief = args.relief
            /\ args.relief \in {"", PyNone} => ret.relief = "none"
            /\ a.total <= b.total

\* the unknown relief reduce25_all has been handed in with a tax to pay
C25_Witness ==
    /\ fn = "non_agri_land_tax_vnd"
    /\ args.relief = "reduce25_all"
    /\ ret.relief = "reduce25_all"
    /\ ret.tax_vnd_before_relief.total > 0
    /\ ret.tax_vnd.total = ret.tax_vnd_before_relief.total
\* a cell holding a word, which astype(float) rejects
NotFloat == -999996

\* The listing rows datasets are made of: the text, the fraud probability (in
\* 1/Unit: 100 is 1.0 and 5000 is 50, a percentage), the unit price and the
\* government price (million VND per m2).  NaN is a missing cell.
RowPool == <<
    [text |-> StrValue(<<"S","ổ"," ","h","ồ","n","g"," ","r","i","ê","n","g">>),
     fake |-> 0, unit |-> 100, gov |-> 100],
    [text |-> StrValue(<<"g","i","ấ","y"," ","t","a","y",","," ","d","í","n","h"," ","q","u","y"," ","h","o","ạ","c","h">>),
     fake |-> 100, unit |-> 1000, gov |-> 100],
    [text |-> StrValue(<<"k","h","ô","n","g"," ","q","u","y"," ","h","o","ạ","c","h">>),
     fake |-> 5000, unit |-> 10, gov |-> 100],
    [text |-> NonStrValue("None"),
     fake |-> NaN, unit |-> 100, gov |-> 0],
    [text |-> StrValue(<<"V","i"," ","b","ằ","n","g">>),
     fake |-> 15000, unit |-> 100, gov |-> -10],
    [text |-> StrValue(<<"s","ổ"," ","-d","ỏ",","," ","-d","ấ","t"," ","t","r","e","o">>),
     fake |-> 100, unit |-> NaN, gov |-> 100],
    [text |-> StrValue(<<"c","ô","n","g"," ","c","h","ứ","n","g",","," ","k","h","ô","n","g"," ","t","r","a","n","h"," ","c","h","ấ","p">>),
     fake |-> 0, unit |-> 1000, gov |-> 10],
    [text |-> StrValue(<<>>),
     fake |-> 2500, unit |-> 0, gov |-> 10],
    [text |-> StrValue(<<"s","ổ"," ","h","ồ","n","g">>),
     fake |-> NotFloat, unit |-> 100, gov |-> 100]
>>

\* Nine listings whose equal-weight scores are 0, 1/8, ..., 1, in no order.
NineRows == <<
    [text |-> StrValue(<<"g","i","ấ","y"," ","t","a","y",","," ","k","h","ô","n","g"," ","l","ộ"," ","g","i","ớ","i">>),
     fake |-> 0, unit |-> 100, gov |-> 100],
    [text |-> StrValue(<<"s","ổ"," ","h","ồ","n","g",","," ","k","h","ô","n","g"," ","q","u","y"," ","h","o","ạ","c","h">>),
     fake |-> 0, unit |-> 100, gov |-> 100],
    [text |-> StrValue(<<"v","i"," ","b","ằ","n","g",","," ","l","ộ"," ","g","i","ớ","i">>),
     fake |-> 100, unit |-> 1000, gov |-> 100],
    [text |-> StrValue(<<"g","i","ấ","y"," ","t","a","y",","," ","k","h","ô","n","g"," ","q","u","y"," ","h","o","ạ","c","h">>),
     fake |-> 100, unit |-> 10, gov |-> 100],
    [text |-> StrValue(<<"n","h","à"," ","-d","ẹ","p",","," ","k","h","ô","n","g"," ","t","r","a","n","h"," ","c","h","ấ","p">>),
     fake |-> 0, unit |-> 100, gov |-> 100],
    [text |-> StrValue(<<"g","ó","p"," ","v","ố","n">>),
     fake |-> 100, unit |-> 1000, gov |-> 100],
    [text |-> StrValue(<<"g","i","ấ","y"," ","t","a","y",","," ","k","h","ô","n","g"," ","q","u","y"," ","h","o","ạ","c","h">>),
     fake |-> 50, unit |-> 100, gov |-> 100],
    [text |-> StrValue(<<"h","-d","m","b",","," ","q","u","y"," ","h","o","ạ","c","h"," ","t","r","e","o">>),
     fake |-> 100, unit |-> 100, gov |-> 100],
    [text |-> StrValue(<<"c","h","ờ"," ","s","ổ">>),
     fake |-> 100, unit |-> 100, gov |-> 100]
>>
(***************************************************************************)
(* Price discrepancy (scoring.py lines 169-184)                            *)
(***************************************************************************)

\* A price ratio is held as a whole number of 1/RatioDen.
RatioDen == 1000

\* float("inf"); -Inf is float("-inf")
Inf == 999998

\* None handed in where a float is expected
NoneValue == -999997

\* np.isfinite(x)
isfinite(x) == x \notin {NaN, Inf, 0 - Inf}

\* A natural logarithm is held as a whole number of 1/LnScale.
LnScale == 1000000

\* math.log(x / RatioDen) * LnScale, rounded, for the ratios and caps of the model
LnTable ==
    1 :> -6907755 @@ 100 :> -2302585 @@ 500 :> -693147 @@
    1000 :> 0 @@ 1500 :> 405465 @@ 2000 :> 693147 @@
    3000 :> 1098612 @@ 5000 :> 1609438 @@ 10000 :> 2302585 @@
    20000 :> 2995732 @@ 50000 :> 3912023 @@ 100000 :> 4605170 @@
    1000000 :> 6907755

\* math.log of a ratio held in 1/RatioDen
Ln(x) == LnTable[x]

\* np.clip(x, lo, hi)
clip(x, lo, hi) == IF x < lo THEN lo ELSE IF x > hi THEN hi ELSE x

\* normalize_log_ratio (lines 178-179): math.log(cap) raises ValueError for
\* cap <= 0 and the division raises ZeroDivisionError for cap = 1
normalize_log_ratio_raises(ratio, cap) ==
    IF ratio = NoneValue \/ ~ isfinite(ratio) \/ ratio <= 0 THEN "no"
    ELSE IF cap <= 0 THEN "ValueError"
    ELSE IF cap = 1 THEN "ZeroDivisionError"
    ELSE "no"

\* normalize_log_ratio giving 0.0 to a ratio <= 0
normalize_log_ratio_zero_for_nonpositive(ratio, cap) ==
    IF ratio = NoneValue \/ ~ isfinite(ratio) THEN NaN
    ELSE IF ratio <= 0 THEN 0
    ELSE LET score == (Ln(ratio) * Unit) \div Ln(cap * RatioDen)
         IN  clip(score, 0, Unit)

\* normalize_log_ratio with min(1, score) only, as its docstring has it
normalize_log_ratio_min_only(ratio, cap) ==
    IF ratio = NoneValue \/ ~ isfinite(ratio) \/ ratio <= 0 THEN NaN
    ELSE LET score == (Ln(ratio) * Unit) \div Ln(cap * RatioDen)
         IN  Min(score, Unit)

\* normalize_log_ratio (scoring.py lines 169-179): ratio in 1/RatioDen, cap a
\* number, result in 1/Unit.  max(ratio, 1e-9) changes no ratio of at least
\* 1/RatioDen.
normalize_log_ratio(ratio, cap) ==
    IF ratio = NoneValue \/ ~ isfinite(ratio) \/ ratio <= 0 THEN NaN
    ELSE LET score == (Ln(ratio) * Unit) \div Ln(cap * RatioDen)
         IN  clip(score, 0, Unit)

\* normalize_price_gap (scoring.py lines 182-184)
normalize_price_gap(price_gap, cap) == normalize_log_ratio(price_gap, cap)

(***************************************************************************)
(* CRITIC weights (scoring.py lines 191-217)                               *)
(***************************************************************************)

\* A standard deviation is held as a whole number of 1/SqrtScale of the data's unit.
SqrtScale == 10

\* A correlation is held as a whole number of 1/CorrScale.
CorrScale == 100

\* largest r with r * r <= v, lo * lo <= v < hi * hi
RECURSIVE IsqrtIn(_, _, _)
IsqrtIn(v, lo, hi) ==
    IF hi - lo <= 1 THEN lo
    ELSE LET mid == (lo + hi) \div 2
         IN  IF mid * mid <= v THEN IsqrtIn(v, mid, hi) ELSE IsqrtIn(v, lo, mid)

Isqrt(v) == IsqrtIn(v, 0, Min(v + 1, 46341))

\* the four component columns, in the order of `cols` (scoring.py line 277)
RiskCols == <<"S_legal", "S_fake", "S_price", "S_plan">>

ColSet(cols) == {cols[i] : i \in 1..Len(cols)}

\* df[cols]...replace([inf, -inf], nan).dropna(how="any"): the rows with every
\* selected column known
CompleteRows(rows, cols) ==
    SelectSeq(rows, LAMBDA r : \A i \in 1..Len(cols) : ~ IsNaN(r[cols[i]]))

\* sum over the rows of X of column a times column b
SumProd(X, a, b) == SumOver(1..Len(X), [i \in 1..Len(X) |-> X[i][a] * X[i][b]])

ColSum(X, a) == SumOver(1..Len(X), [i \in 1..Len(X) |-> X[i][a]])

\* n * n times the population covariance of columns a and b
CovN(X, a, b) == Len(X) * SumProd(X, a, b) - ColSum(X, a) * ColSum(X, b)

\* X.std(ddof=0)[c], as a whole number of 1/(n * SqrtScale) of the data's unit
std(X, c) == Isqrt(CovN(X, c, c) * SqrtScale * SqrtScale)

\* X.corr()[a][b]: Pearson's r in 1/CorrScale, NaN when a column is constant
corr(X, a, b) ==
    LET d == CovN(X, a, a) * CovN(X, b, b)
    IN  IF d = 0 THEN NaN ELSE (CovN(X, a, b) * CorrScale) \div Isqrt(d)

\* .fillna(0.0)
fillna0(x) == IF IsNaN(x) THEN 0 ELSE x

\* C[c] = std[c] * (1.0 - corr[c]).sum()
CriticC(X, cols, c) ==
    std(X, c) * SumOver(1..Len(cols),
                        [k \in 1..Len(cols) |-> CorrScale - fillna0(corr(X, c, cols[k]))])

\* A weight vector: the weight of column c is num[c] / den.
\* {c: 1.0 / m for c in cols}
EqualWeights(cols) == [num |-> [c \in ColSet(cols) |-> 1], den |-> Len(cols)]

\* critic_weights without the fallback on total <= 0
critic_weights_no_total_check(rows, cols) ==
    LET X == CompleteRows(rows, cols)
        C == [c \in ColSet(cols) |-> CriticC(X, cols, c)]
        total == SumOver(1..Len(cols), [k \in 1..Len(cols) |-> C[cols[k]]])
    IN  IF Len(X) = 0 THEN EqualWeights(cols)
        ELSE [num |-> C, den |-> total]

\* critic_weights with each C[c] divided by the largest C_j, not by total
critic_weights_over_largest(rows, cols) ==
    LET X == CompleteRows(rows, cols)
        C == [c \in ColSet(cols) |-> CriticC(X, cols, c)]
        total == SumOver(1..Len(cols), [k \in 1..Len(cols) |-> C[cols[k]]])
        largest == CHOOSE v \in {C[c] : c \in ColSet(cols)} :
                       \A c \in ColSet(cols) : C[c] <= v
    IN  IF Len(X) = 0 THEN EqualWeights(cols)
        ELSE IF total <= 0 THEN EqualWeights(cols)
        ELSE [num |-> C, den |-> largest]

\* critic_weights (scoring.py lines 191-217)
critic_weights(rows, cols) ==
    LET X == CompleteRows(rows, cols)
        C == [c \in ColSet(cols) |-> CriticC(X, cols, c)]
        total == SumOver(1..Len(cols), [k \in 1..Len(cols) |-> C[cols[k]]])
    IN  IF Len(X) = 0 THEN EqualWeights(cols)
        ELSE IF total <= 0 THEN EqualWeights(cols)
        ELSE [num |-> C, den |-> total]

(***************************************************************************)
(* Composite Risk Score (scoring.py lines 224-307)                         *)
(***************************************************************************)

\* RiskConfig.cap_ratio
DefaultCapRatio == 10

\* the roles of the columns RiskConfig names (scoring.py lines 226-229)
SourceColumns == {"text", "fake", "unit", "gov"}

\* fake.max(skipna=True) > 1.0
FakeIsPercent(rows) == \E i \in 1..Len(rows) : ~ IsNaN(rows[i].fake) /\ rows[i].fake > Unit

\* S_fake with the scale decided row by row: a value > 1 is a percentage
SFakePerRow(x, percent) ==
    IF IsNaN(x) THEN NaN
    ELSE clip(IF x > Unit THEN x \div 100 ELSE x, 0, Unit)

\* S_fake of one row: fake / 100.0 when the column is in percent, clipped to [0, 1]
SFake(x, percent) ==
    IF IsNaN(x) THEN NaN
    ELSE clip(IF percent THEN x \div 100 ELSE x, 0, Unit)

\* unit / gov.replace(0, np.nan), in 1/RatioDen
ListingGap(unit, gov) ==
    IF IsNaN(unit) \/ IsNaN(gov) \/ gov = 0 THEN NaN
    ELSE (unit * RatioDen) \div gov

\* astype(float) (scoring.py lines 247, 256, 257) raises ValueError on a column
\* that holds a word
add_risk_components_raises(d) ==
    \E i \in 1..Len(d.rows) :
        \/ "fake" \in d.columns /\ d.rows[i].fake = NotFloat
        \/ /\ "unit" \in d.columns /\ "gov" \in d.columns
           /\ (d.rows[i].unit = NotFloat \/ d.rows[i].gov = NotFloat)

\* add_risk_components (scoring.py lines 233-265): the rows of `out`
add_risk_components(d, c) ==
    [i \in 1..Len(d.rows) |->
        LET r == d.rows[i]
            hasText == "text" \in d.columns
            hasFake == "fake" \in d.columns
            hasPrice == "unit" \in d.columns /\ "gov" \in d.columns
            gap == IF hasPrice THEN ListingGap(r.unit, r.gov) ELSE NaN
        IN  [S_legal |-> IF hasText THEN legal_risk_score(r.text) ELSE NaN,
             S_plan |-> IF hasText THEN planning_risk_score(r.text) ELSE NaN,
             S_fake |-> IF hasFake THEN SFake(r.fake, FakeIsPercent(d.rows)) ELSE NaN,
             ListingGap |-> gap,
             S_price |-> IF hasPrice THEN normalize_log_ratio(gap, c.cap_ratio) ELSE NaN]]

\* method.lower()
MethodLower(m) == IF m \in {"equal", "Equal", "EQUAL"} THEN "equal" ELSE m

\* the weights compute_risk_score uses (scoring.py lines 278-282); "None" stands
\* for weights=None
SelectWeights(c, rows) ==
    IF c.weights # "None" THEN c.given
    ELSE IF MethodLower(c.method) = "equal" THEN EqualWeights(RiskCols)
    ELSE critic_weights(rows, RiskCols)

\* X.fillna(0) in place of X.fillna(0.5)
fillna_zero(x) == IF IsNaN(x) THEN 0 ELSE x

\* X.fillna(0.5)
fillna_neutral(x) == IF IsNaN(x) THEN Unit \div 2 ELSE x

\* the score of one row with the weight of S_legal used for every column, not
\* the weight vector as a whole
RiskScoreOneWeight(r, w) ==
    SumOver(1..Len(RiskCols),
            [k \in 1..Len(RiskCols) |-> w.num["S_legal"] * fillna_neutral(r[RiskCols[k]])])

\* sum(weights[c] * X[c] for c in cols) of one row, as a whole number of
\* 1/(weights.den * Unit)
RiskScore(r, w) ==
    SumOver(1..Len(RiskCols),
            [k \in 1..Len(RiskCols) |-> w.num[RiskCols[k]] * fillna_neutral(r[RiskCols[k]])])

\* the row with its Risk Score, the filled values X stored back into the row
ScoredRowFilled(r, w) ==
    [c \in {"RiskScore"} \cup DOMAIN r |->
        IF c = "RiskScore" THEN RiskScore(r, w)
        ELSE IF c \in ColSet(RiskCols) THEN fillna_neutral(r[c])
        ELSE r[c]]

\* out["Risk Score"] = ... (scoring.py lines 285-288): X is a copy of the four
\* columns, so the row keeps its components and gains its Risk Score
ScoredRow(r, w) == [RiskScore |-> RiskScore(r, w)] @@ r

\* the quantile with the second order statistic in place of the interpolation
QuantileNoInterpolation(scores, k) ==
    IF Len(scores) = 0 THEN NaN
    ELSE LET s == SortSeq(scores, LAMBDA a, b : a < b)
             pos == (Len(s) - 1) * k
             hi == Min(pos \div 3 + 2, Len(s))
         IN  3 * s[hi]

\* Series.quantile(k / 3), linear interpolation between order statistics, as a
\* whole number of thirds of the unit of the scores
Quantile(scores, k) ==
    IF Len(scores) = 0 THEN NaN
    ELSE LET s == SortSeq(scores, LAMBDA a, b : a < b)
             pos == (Len(s) - 1) * k
             lo == pos \div 3 + 1
             hi == Min(lo + 1, Len(s))
         IN  3 * s[lo] + (pos % 3) * (s[hi] - s[lo])

\* _level with < in place of <=
level_strict(s, q33, q67) ==
    IF IsNaN(s) THEN "N/A"
    ELSE IF 3 * s < q33 THEN "Low"
    ELSE IF 3 * s < q67 THEN "Medium"
    ELSE "High"

\* _level (scoring.py lines 294-301): s in the unit of the scores, q33 and q67 in thirds
level(s, q33, q67) ==
    IF IsNaN(s) THEN "N/A"
    ELSE IF 3 * s <= q33 THEN "Low"
    ELSE IF 3 * s <= q67 THEN "Medium"
    ELSE "High"


(***************************************************************************)
(* Calls of normalize_log_ratio and normalize_price_gap                    *)
(***************************************************************************)

\* default cap of normalize_log_ratio and normalize_price_gap: 10.0
DefaultCap == 10

\* the ratios handed in, in 1/RatioDen: None, nan, inf, -inf, negative, zero,
\* and 0.001 to 1000
RatioArgs ==
    {NoneValue, NaN, Inf, 0 - Inf, -10000, -500, 0} \cup DOMAIN LnTable

\* the caps handed in
CapArgs == {Omitted, Num(-10), Num(0), Num(1), Num(2), Num(10), Num(100)}

NormArgs ==
    {[f |-> f, ratio |-> r, cap |-> c] :
        f \in {"normalize_log_ratio", "normalize_price_gap"},
        r \in RatioArgs, c \in CapArgs}

InitNorm ==
    /\ fn = "none"
    /\ args \in NormArgs
    /\ ret = NoReturn
    /\ RiskIdle

\* the outcome of a call: the exception raised, or the value returned
CallNormalizeLogRatio ==
    /\ fn = "none"
    /\ args.f = "normalize_log_ratio"
    /\ LET cap == Param(args.cap, DefaultCap).v
           exc == normalize_log_ratio_raises(args.ratio, cap)
       IN  ret' = IF exc # "no" THEN [raised |-> exc]
                  ELSE [value |-> normalize_log_ratio(args.ratio, cap)]
    /\ fn' = "normalize_log_ratio"
    /\ UNCHANGED <<args, riskVars>>

CallNormalizePriceGap ==
    /\ fn = "none"
    /\ args.f = "normalize_price_gap"
    /\ LET cap == Param(args.cap, DefaultCap).v
           exc == normalize_log_ratio_raises(args.ratio, cap)
       IN  ret' = IF exc # "no" THEN [raised |-> exc]
                  ELSE [value |-> normalize_price_gap(args.ratio, cap)]
    /\ fn' = "normalize_price_gap"
    /\ UNCHANGED <<args, riskVars>>

NextNorm == CallNormalizeLogRatio \/ CallNormalizePriceGap

SpecNorm == InitNorm /\ [][NextNorm]_vars

CalledNorm == fn \in {"normalize_log_ratio", "normalize_price_gap"}

\* C13: normalize_log_ratio and normalize_price_gap return NaN, not 0 and not
\* an exception, for a ratio that is None, nan, inf, -inf, zero or negative,
\* whatever the cap.
C13_UnknownRatio ==
    (CalledNorm /\ (args.ratio \in {NoneValue, NaN, Inf, 0 - Inf} \/ args.ratio <= 0))
        => ret = [value |-> NaN]

\* a zero ratio has been normalised with a cap whose logarithm is 0
C13_Witness ==
    /\ fn = "normalize_price_gap"
    /\ args.ratio = 0
    /\ args.cap = Num(1)
    /\ ret = [value |-> NaN]

\* the ratio of the call is an ordinary number > 0 and the cap is > 1
GoodCall ==
    /\ CalledNorm
    /\ args.ratio \in DOMAIN LnTable
    /\ Param(args.cap, DefaultCap).v > 1

\* C14: for a ratio > 0 and a cap > 1 the result is
\* clamp(log(ratio)/log(cap), 0, 1): within [0, 1], 0 for a ratio <= 1, 1 for a
\* ratio >= cap, strictly between for a ratio strictly between (the logarithm
\* quotient, to 1/Unit), and no smaller than the result for any smaller ratio.
C14_ClampedLog ==
    GoodCall =>
        LET cap == Param(args.cap, DefaultCap).v
            r == args.ratio
        IN  /\ DOMAIN ret = {"value"}
            /\ ret.value >= 0 /\ ret.value <= Unit
            /\ r <= RatioDen => ret.value = 0
            /\ r >= cap * RatioDen => ret.value = Unit
            /\ (r > RatioDen /\ r < cap * RatioDen) =>
                  /\ ret.value * Ln(cap * RatioDen) <= Ln(r) * Unit
                  /\ (ret.value + 1) * Ln(cap * RatioDen) > Ln(r) * Unit
                  /\ ret.value < Unit
            /\ \A s \in DOMAIN LnTable :
                  s <= r => normalize_log_ratio(s, cap) <= ret.value

\* ratio 5 has been normalised with cap 100: between 0 and 1
C14_Witness ==
    /\ fn = "normalize_log_ratio"
    /\ args.ratio = 5000
    /\ args.cap = Num(100)
    /\ ret.value > 0
    /\ ret.value < Unit
(***************************************************************************)
(* Runs of compute_risk_score, statement by statement                      *)
(***************************************************************************)

\* at most this many rows in a dataset drawn from RowPool
MaxRows == 3

\* the choices of rows: pool indices in non-decreasing order (no computation of
\* the program depends on the order of the rows)
RowChoices ==
    {ix \in UNION {[1..n -> 1..Len(RowPool)] : n \in 0..MaxRows} :
        \A i \in 1..(Len(ix) - 1) : ix[i] <= ix[i + 1]}

\* the columns a dataset has: all four, all but one, or none
ColumnSets == {SourceColumns} \cup {SourceColumns \ {c} : c \in SourceColumns} \cup {{}}

Datasets ==
    {[columns |-> cs, rows |-> [i \in 1..Len(ix) |-> RowPool[ix[i]]]] :
        cs \in ColumnSets, ix \in RowChoices}

\* weights handed in by the caller: 0.4, 0.3, 0.2, 0.1
GivenWeights ==
    [num |-> [c \in ColSet(RiskCols) |->
                IF c = "S_legal" THEN 4 ELSE IF c = "S_fake" THEN 3
                ELSE IF c = "S_price" THEN 2 ELSE 1],
     den |-> 10]

Configs ==
    {[method |-> "critic", weights |-> "None", given |-> <<>>, cap_ratio |-> DefaultCapRatio],
     [method |-> "Equal", weights |-> "None", given |-> <<>>, cap_ratio |-> DefaultCapRatio],
     [method |-> "critic", weights |-> "given", given |-> GivenWeights,
      cap_ratio |-> DefaultCapRatio],
     [method |-> "critic", weights |-> "None", given |-> <<>>, cap_ratio |-> 100]}

NineRowsDataset == [columns |-> SourceColumns, rows |-> NineRows]

\* the column lists critic_weights is called with on a scored dataset
ColumnLists ==
    {<<"S_legal", "S_fake">>, <<"S_price">>, <<"S_fake", "S_price", "S_plan">>}

InitRisk ==
    /\ fn = "none"
    /\ args = <<>>
    /\ ret = NoReturn
    /\ pc = "start"
    /\ \/ df \in Datasets /\ cfg \in Configs
       \/ df = NineRowsDataset /\ cfg \in {c \in Configs : c.method = "Equal"}
    /\ out = <<>>
    /\ weights = <<>>
    /\ thr = <<>>

\* out = add_risk_components(df, cfg=cfg); an exception ends the call
AddRiskComponents ==
    /\ pc = "start"
    /\ IF add_risk_components_raises(df)
       THEN out' = out /\ pc' = "raised"
       ELSE out' = add_risk_components(df, cfg) /\ pc' = "weights"
    /\ UNCHANGED <<fn, args, ret, df, cfg, weights, thr>>

\* weights = ... (scoring.py lines 277-282)
ChooseWeights ==
    /\ pc = "weights"
    /\ weights' = SelectWeights(cfg, out)
    /\ pc' = "score"
    /\ UNCHANGED <<fn, args, ret, df, cfg, out, thr>>

\* out["Risk Score"] = ... (scoring.py lines 284-288)
ComputeRiskScore ==
    /\ pc = "score"
    /\ out' = [i \in 1..Len(out) |-> ScoredRow(out[i], weights)]
    /\ pc' = "quantile"
    /\ UNCHANGED <<fn, args, ret, df, cfg, weights, thr>>

\* q33 = ...; q67 = ... (scoring.py lines 291-292)
ComputeThresholds ==
    /\ pc = "quantile"
    /\ LET scores == [i \in 1..Len(out) |-> out[i].RiskScore]
       IN  thr' = [q33 |-> Quantile(scores, 1), q67 |-> Quantile(scores, 2)]
    /\ pc' = "level"
    /\ UNCHANGED <<fn, args, ret, df, cfg, out, weights>>

\* row i of `out` has its Risk Level
HasLevel(o, i) == "RiskLevel" \in DOMAIN o[i]

\* out["Risk Score"].apply(_level) (scoring.py line 303), one row at a time in
\* the order of the rows
AssignLevel ==
    /\ pc = "level"
    /\ \E i \in 1..Len(out) :
        /\ ~ HasLevel(out, i)
        /\ \A j \in 1..(i - 1) : HasLevel(out, j)
        /\ out' = [out EXCEPT
                     ![i] = [RiskLevel |-> level(out[i].RiskScore, thr.q33, thr.q67)]
                               @@ out[i]]
    /\ UNCHANGED <<fn, args, ret, pc, df, cfg, weights, thr>>

\* out["Risk_Q33"] = q33, out["Risk_Q67"] = q67 and the return (scoring.py
\* lines 304-307)
StoreThresholds ==
    /\ pc = "level"
    /\ \A i \in 1..Len(out) : HasLevel(out, i)
    /\ out' = [i \in 1..Len(out) |->
                [Risk_Q33 |-> thr.q33, Risk_Q67 |-> thr.q67] @@ out[i]]
    /\ pc' = "done"
    /\ UNCHANGED <<fn, args, ret, df, cfg, weights, thr>>

\* critic_weights(out, cols) called on the scored dataset with another column
\* list (on the datasets drawn from RowPool: the products of the correlation of
\* a longer dataset leave the range of the integers of the model)
CallCriticWeights ==
    /\ pc = "done"
    /\ fn = "none"
    /\ df \in Datasets
    /\ \E cols \in ColumnLists :
        /\ args' = cols
        /\ ret' = critic_weights(out, cols)
    /\ fn' = "critic_weights"
    /\ UNCHANGED riskVars

NextRisk ==
    \/ AddRiskComponents
    \/ ChooseWeights
    \/ ComputeRiskScore
    \/ ComputeThresholds
    \/ AssignLevel
    \/ StoreThresholds
    \/ CallCriticWeights

SpecRisk == InitRisk /\ [][NextRisk]_vars

(***************************************************************************)
(* Properties of compute_risk_score and critic_weights                     *)
(***************************************************************************)

\* the Risk Scores of the rows of `out`
Scores == [i \in 1..Len(out) |-> out[i].RiskScore]

\* the j-th smallest of the values of s, counted with repetitions
KthSmallest(s, j) ==
    CHOOSE v \in {s[i] : i \in 1..Len(s)} :
        /\ Cardinality({i \in 1..Len(s) : s[i] < v}) < j
        /\ j <= Cardinality({i \in 1..Len(s) : s[i] <= v})

\* three times the k/3 quantile of s: at position (n - 1) * k / 3 between the
\* order statistics, interpolated linearly
TertileTimes3(s, k) ==
    LET p == (Len(s) - 1) * k
        a == KthSmallest(s, p \div 3 + 1)
        b == IF p \div 3 + 2 <= Len(s) THEN KthSmallest(s, p \div 3 + 2) ELSE a
    IN  3 * a + (p % 3) * (b - a)

\* the rows of `out` at Risk Level l
RowsAtLevel(l) == {i \in 1..Len(out) : out[i].RiskLevel = l}

\* C3: each row is Low when Score <= Q33, Medium when Q33 < Score <= Q67 and
\* High when Score > Q67, Q33 and Q67 being the 1/3 and 2/3 quantiles (linear
\* interpolation) of the Risk Scores of the rows of the same dataset; a score
\* equal to a threshold is at the lower level; of nine evenly spaced scores the
\* three lowest are Low, the three middle Medium and the three highest High.
C3_Levels ==
    pc = "done" =>
        /\ Len(out) > 0 =>
            /\ thr.q33 = TertileTimes3(Scores, 1)
            /\ thr.q67 = TertileTimes3(Scores, 2)
        /\ \A i \in 1..Len(out) :
            /\ out[i].Risk_Q33 = thr.q33
            /\ out[i].Risk_Q67 = thr.q67
            /\ 3 * Scores[i] <= thr.q33 => out[i].RiskLevel = "Low"
            /\ (thr.q33 < 3 * Scores[i] /\ 3 * Scores[i] <= thr.q67)
                  => out[i].RiskLevel = "Medium"
            /\ thr.q67 < 3 * Scores[i] => out[i].RiskLevel = "High"
        /\ df = NineRowsDataset =>
            \A i \in 1..Len(out) :
                LET below == Cardinality({j \in 1..Len(out) : Scores[j] < Scores[i]})
                IN  out[i].RiskLevel =
                        IF below < 3 THEN "Low" ELSE IF below < 6 THEN "Medium" ELSE "High"

\* nine rows with the evenly spaced scores 0, 1/8, ..., 1 have been levelled:
\* three Low, three Medium, three High
C3_Witness ==
    /\ pc = "done"
    /\ df = NineRowsDataset
    /\ weights.den = 4
    /\ {Scores[i] : i \in 1..Len(out)} = {k * (Unit \div 2) : k \in 0..8}
    /\ Cardinality(RowsAtLevel("Low")) = 3
    /\ Cardinality(RowsAtLevel("Medium")) = 3
    /\ Cardinality(RowsAtLevel("High")) = 3

\* the value of a component at scoring time: the neutral 0.5 when it is unknown
ValueAtScoring(x) == IF IsNaN(x) THEN Unit \div 2 ELSE x

\* C4: the Risk Score of each row is the sum over S_legal, S_fake, S_price and
\* S_plan of weight * value, the value of an unknown component being 0.5.
C4_WeightedSum ==
    pc \in {"quantile", "level", "done"} =>
        \A i \in 1..Len(out) :
            out[i].RiskScore =
                weights.num["S_legal"] * ValueAtScoring(out[i].S_legal)
                + weights.num["S_fake"] * ValueAtScoring(out[i].S_fake)
                + weights.num["S_price"] * ValueAtScoring(out[i].S_price)
                + weights.num["S_plan"] * ValueAtScoring(out[i].S_plan)

\* a row with an unknown component of positive weight has been scored
C4_Witness ==
    /\ pc = "done"
    /\ \E i \in 1..Len(out) :
        /\ IsNaN(out[i].S_price)
        /\ ~ IsNaN(out[i].S_fake)
        /\ weights.num["S_price"] > 0
        /\ out[i].RiskScore > 0

\* w gives each column of cols one weight, all >= 0, summing to 1
IsWeightVector(w, cols) ==
    /\ DOMAIN w.num = {cols[k] : k \in 1..Len(cols)}
    /\ w.den > 0
    /\ \A c \in DOMAIN w.num : w.num[c] >= 0
    /\ SumOver(1..Len(cols), [k \in 1..Len(cols) |-> w.num[cols[k]]]) = w.den

\* compute_risk_score has taken its weights from critic_weights
UsedCritic ==
    /\ pc \in {"score", "quantile", "level", "done"}
    /\ cfg.weights = "None"
    /\ cfg.method \notin {"equal", "Equal", "EQUAL"}

\* C5: the weights critic_weights returns are all >= 0 and sum to 1, one weight
\* per requested column, on the CRITIC path and on the equal-weight path.
C5_WeightsSumToOne ==
    /\ UsedCritic => IsWeightVector(weights, RiskCols)
    /\ fn = "critic_weights" => IsWeightVector(ret, args)

\* critic_weights has returned unequal weights computed from a dataset
C5_Witness ==
    /\ UsedCritic
    /\ pc = "done"
    /\ Len(out) >= 3
    /\ weights.num["S_legal"] > weights.num["S_fake"]
    /\ weights.num["S_fake"] > 0
    /\ weights.num["S_price"] > weights.num["S_plan"]

\* w is 1/m for each of the m columns of cols
IsEqualWeights(w, cols) ==
    /\ DOMAIN w.num = {cols[k] : k \in 1..Len(cols)}
    /\ \A c \in DOMAIN w.num : w.num[c] * Len(cols) = w.den
    /\ w.den > 0

\* no row of rows has all the columns of cols known
NoCompleteRow(rows, cols) ==
    \A i \in 1..Len(rows) : \E k \in 1..Len(cols) : IsNaN(rows[i][cols[k]])

\* each column of cols has one value over the complete rows
ZeroVariance(rows, cols) ==
    \A i, j \in 1..Len(rows) :
        (/\ \A k \in 1..Len(cols) : ~ IsNaN(rows[i][cols[k]])
         /\ \A k \in 1..Len(cols) : ~ IsNaN(rows[j][cols[k]]))
            => \A k \in 1..Len(cols) : rows[i][cols[k]] = rows[j][cols[k]]

\* the sum of the C_j of the complete rows is <= 0
TotalNotPositive(rows, cols) ==
    LET X == CompleteRows(rows, cols)
    IN  SumOver(1..Len(cols), [k \in 1..Len(cols) |-> CriticC(X, cols, cols[k])]) <= 0

Degenerate(rows, cols) ==
    \/ NoCompleteRow(rows, cols)
    \/ ZeroVariance(rows, cols)
    \/ TotalNotPositive(rows, cols)

\* C6: critic_weights returns 1/m for each of the m columns when no row is
\* complete (as when a source column of a component is absent from the
\* dataset) and when the sum of the C_j is <= 0 (as when every column has zero
\* variance).
C6_EqualFallback ==
    /\ UsedCritic =>
        /\ Degenerate(out, RiskCols) => IsEqualWeights(weights, RiskCols)
        /\ df.columns # SourceColumns => IsEqualWeights(weights, RiskCols)
    /\ fn = "critic_weights" =>
        (Degenerate(out, args) => IsEqualWeights(ret, args))

\* critic_weights has been run on rows whose columns all have zero variance, and
\* has returned equal weights
C6_Witness ==
    /\ UsedCritic
    /\ pc = "done"
    /\ Len(CompleteRows(out, RiskCols)) >= 2
    /\ ZeroVariance(out, RiskCols)
    /\ \A c \in DOMAIN weights.num : weights.num[c] = 1
    /\ weights.den = 4


\* add_risk_components has run: out holds the component columns
ComponentsAdded == pc \in {"weights", "score", "quantile", "level", "done"}

\* C15: a row whose government price is zero or negative has an unknown (NaN)
\* ListingGap and an unknown S_price: the price is treated as missing when it
\* is the denominator of the ratio.
C15_NonPositiveGovMissing ==
    ComponentsAdded =>
        \A i \in 1..Len(out) :
            (/\ {"unit", "gov"} \subseteq df.columns
             /\ ~ IsNaN(df.rows[i].gov)
             /\ df.rows[i].gov <= 0)
                => (IsNaN(out[i].ListingGap) /\ IsNaN(out[i].S_price))

\* a missing cell, or a cell holding a word
AbsentOrInvalid(x) == IsNaN(x) \/ x = NotFloat

\* C16: add_risk_components and compute_risk_score do not raise on missing
\* data: an absent source column leaves its components unknown (NaN) in every
\* row (text: S_legal and S_plan; fraud: S_fake; unit or government price:
\* ListingGap and S_price), and a missing or non-numeric cell of a present
\* numeric column leaves that row's component unknown.
C16_NeverRaises ==
    /\ pc # "raised"
    /\ ComponentsAdded =>
        \A i \in 1..Len(out) :
            LET r == df.rows[i]
                hasPrice == {"unit", "gov"} \subseteq df.columns
            IN  /\ "text" \notin df.columns =>
                      (IsNaN(out[i].S_legal) /\ IsNaN(out[i].S_plan))
                /\ ("fake" \notin df.columns \/ AbsentOrInvalid(r.fake)) =>
                      IsNaN(out[i].S_fake)
                /\ (~ hasPrice \/ AbsentOrInvalid(r.unit) \/ AbsentOrInvalid(r.gov)) =>
                      (IsNaN(out[i].ListingGap) /\ IsNaN(out[i].S_price))

\* the largest known value of the fraud column is > 1
FraudMaxAboveOne ==
    \E i \in 1..Len(df.rows) :
        /\ ~ IsNaN(df.rows[i].fake)
        /\ \A j \in 1..Len(df.rows) :
              IsNaN(df.rows[j].fake) \/ df.rows[j].fake <= df.rows[i].fake
        /\ df.rows[i].fake > Unit

\* x clipped into [0, 1]
Clipped01(x) == IF x < 0 THEN 0 ELSE IF x > Unit THEN Unit ELSE x

\* C19: when the largest known value of the fraud column is > 1 the value of
\* every row is divided by 100, otherwise the value of no row is; either way
\* each known S_fake is the value clipped into [0, 1] and an unknown value
\* stays unknown: one scale for all the rows of a dataset.
C19_FraudScale ==
    (ComponentsAdded /\ "fake" \in df.columns) =>
        \A i \in 1..Len(out) :
            LET x == df.rows[i].fake
            IN  /\ IsNaN(x) => IsNaN(out[i].S_fake)
                /\ (~ IsNaN(x) /\ FraudMaxAboveOne) =>
                      out[i].S_fake = Clipped01(x \div 100)
                /\ (~ IsNaN(x) /\ ~ FraudMaxAboveOne) =>
                      out[i].S_fake = Clipped01(x)

\* a dataset in percent has a row with the value 1 (one percent) and a row
\* with the value 150, clipped to 1.0
C19_Witness ==
    /\ pc = "done"
    /\ "fake" \in df.columns
    /\ \E i, j, k \in 1..Len(out) :
        /\ df.rows[i].fake = Unit /\ out[i].S_fake = 1
        /\ df.rows[j].fake = 150 * Unit /\ out[j].S_fake = Unit
        /\ IsNaN(df.rows[k].fake) /\ IsNaN(out[k].S_fake)

\* row i of o has its Risk Score
HasScore(o, i) == "RiskScore" \in DOMAIN o[i]

\* a step keeps the order of compute_risk_score: the weights are set while no
\* row has a score and are not set again; a row's score is the weighted sum
\* under those weights; the thresholds are set while no row has a level and
\* are not set again; a row's level compares its score with those thresholds;
\* what is stored in the output at the return are those thresholds.
C20_Step ==
    /\ weights' # weights =>
          /\ pc = "weights"
          /\ \A i \in 1..Len(out') : ~ HasScore(out', i)
    /\ thr' # thr =>
          /\ pc = "quantile"
          /\ \A i \in 1..Len(out') : HasScore(out', i) /\ ~ HasLevel(out', i)
    /\ \A i \in 1..Len(out') :
          (pc # "start" /\ HasScore(out', i) /\ ~ HasScore(out, i)) =>
              /\ pc = "score"
              /\ weights' = weights
              /\ out'[i].RiskScore =
                    weights.num["S_legal"] * ValueAtScoring(out[i].S_legal)
                    + weights.num["S_fake"] * ValueAtScoring(out[i].S_fake)
                    + weights.num["S_price"] * ValueAtScoring(out[i].S_price)
                    + weights.num["S_plan"] * ValueAtScoring(out[i].S_plan)
    /\ \A i \in 1..Len(out') :
          (pc # "start" /\ HasLevel(out', i) /\ ~ HasLevel(out, i)) =>
              /\ pc = "level"
              /\ thr' = thr
              /\ weights' = weights
              /\ out'[i].RiskScore = out[i].RiskScore
              /\ out'[i].RiskLevel =
                    IF 3 * out[i].RiskScore <= thr.q33 THEN "Low"
                    ELSE IF 3 * out[i].RiskScore <= thr.q67 THEN "Medium"
                    ELSE "High"
    /\ (pc # "done" /\ pc' = "done") =>
          /\ thr' = thr
          /\ weights' = weights
          /\ \A i \in 1..Len(out') :
                /\ HasLevel(out, i)
                /\ out'[i].RiskLevel = out[i].RiskLevel
                /\ out'[i].RiskScore = out[i].RiskScore
                /\ out'[i].Risk_Q33 = thr.q33
                /\ out'[i].Risk_Q67 = thr.q67

\* C20: in every run of compute_risk_score the weight vector is complete before
\* any row's Risk Score is computed, Q33 and Q67 are computed before any row's
\* Risk Level is assigned, every row is scored with that one weight vector and
\* levelled with those two thresholds, and they are the ones returned and
\* stored in the output.
C20_DatasetValuesFirst == [][C20_Step]_vars

\* three rows with different scores have been levelled one after the other
\* with CRITIC weights and the thresholds are stored
C20_Witness ==
    /\ pc = "done"
    /\ UsedCritic
    /\ Len(out) = 3
    /\ out[1].RiskLevel # out[2].RiskLevel
    /\ out[2].RiskLevel # out[3].RiskLevel
    /\ out[1].RiskLevel # out[3].RiskLevel
    /\ weights.num["S_legal"] # weights.num["S_fake"]
    /\ \A i \in 1..3 : out[i].Risk_Q33 = thr.q33 /\ out[i].Risk_Q67 = thr.q67

\* after add_risk_components a step changes no component value of any row: an
\* unknown one stays unknown (NaN) and a known one keeps its value
C22_Step ==
    ComponentsAdded =>
        /\ Len(out') = Len(out)
        /\ \A i \in 1..Len(out) :
              \A c \in {"S_legal", "S_fake", "S_price", "S_plan"} :
                  /\ IsNaN(out[i][c]) => IsNaN(out'[i][c])
                  /\ ~ IsNaN(out[i][c]) => out'[i][c] = out[i][c]

\* C22: the neutral 0.5 stands for an unknown component in the Risk Score only:
\* through compute_risk_score every component that add_risk_components left
\* unknown stays unknown in the dataset, up to the one returned, and every
\* known component keeps its value.
C22_NeutralNotStored == [][C22_Step]_vars

\* a dataset has been returned in which a row scored with 0.5 for its unknown
\* S_price and S_fake still has them unknown
C22_Witness ==
    /\ pc = "done"
    /\ \E i \in 1..Len(out) :
        /\ IsNaN(out[i].S_price)
        /\ IsNaN(out[i].S_fake)
        /\ ~ IsNaN(out[i].S_legal)
        /\ weights.num["S_price"] + weights.num["S_fake"] > 0
        /\ out[i].RiskScore >=
              (weights.num["S_price"] + weights.num["S_fake"]) * (Unit \div 2)

\* Low < Medium < High
LevelRank(l) == IF l = "Low" THEN 1 ELSE IF l = "Medium" THEN 2 ELSE 3

\* C24: in a scored dataset a row whose Risk Score is lower than or equal to
\* another row's never has a higher Risk Level; a row with the smallest score
\* is Low; when all rows have the same score all are Low.
C24_LevelMonotone ==
    pc = "done" =>
        /\ \A i, j \in 1..Len(out) :
              out[i].RiskScore <= out[j].RiskScore =>
                  LevelRank(out[i].RiskLevel) <= LevelRank(out[j].RiskLevel)
        /\ \A i \in 1..Len(out) :
              (\A j \in 1..Len(out) : out[i].RiskScore <= out[j].RiskScore)
                  => out[i].RiskLevel = "Low"
        /\ (\A i, j \in 1..Len(out) : out[i].RiskScore = out[j].RiskScore)
              => \A i \in 1..Len(out) : out[i].RiskLevel = "Low"
        /\ \A i \in 1..Len(out) : out[i].RiskLevel \in {"Low", "Medium", "High"}

\* three rows with the same positive score have all been levelled Low
C24_Witness ==
    /\ pc = "done"
    /\ Len(out) = 3
    /\ out[1].RiskScore > 0
    /\ out[1].RiskScore = out[2].RiskScore
    /\ out[2].RiskScore = out[3].RiskScore
    /\ \A i \in 1..3 : out[i].RiskLevel = "Low"

(***************************************************************************)
(* compute_risk_score on a dataset that its caller goes on changing        *)
(***************************************************************************)

\* at most this many updates of the caller's dataset in one behaviour
MaxUpdates == 2

\* the datasets the caller shares: all four columns, two rows of the first
\* three of RowPool, not yet updated
SharedDatasets ==
    {[columns |-> SourceColumns,
      rows |-> <<RowPool[p[1]], RowPool[p[2]]>>,
      version |-> 0] : p \in {q \in (1..3) \X (1..3) : q[1] <= q[2]}}

\* the values updates write into the cells of a column
UpdateValue ==
    [c \in SourceColumns |->
        IF c = "text" THEN NonStrValue("None")
        ELSE IF c = "fake" THEN 50 * Unit
        ELSE IF c = "unit" THEN 1000
        ELSE 0]

\* out = df.copy() (scoring.py line 235): the rows of the copy, each with the
\* columns the dataset has
PrivateCopy(d) == [i \in 1..Len(d.rows) |-> [c \in d.columns |-> d.rows[i][c]]]

\* the source columns of the rows of o
ColumnsOf(o) == IF Len(o) = 0 THEN {} ELSE DOMAIN o[1] \cap SourceColumns

\* the rows the name `out` stands for, with the caller's dataset in its place
OutAliased(o, d) == PrivateCopy(d)

\* the rows the name `out` stands for in add_risk_components, o being what
\* df.copy() returned and d the caller's dataset: the copy, an object of its own
OutRows(o, d) == o

InitShared ==
    /\ fn = "none"
    /\ args = <<>>
    /\ ret = NoReturn
    /\ pc = "start"
    /\ df \in SharedDatasets
    /\ cfg \in {c \in Configs : c.weights = "None" /\ c.cap_ratio = DefaultCapRatio}
    /\ out = <<>>
    /\ weights = <<>>
    /\ thr = <<>>

\* out = df.copy() (scoring.py line 235)
CopyDataset ==
    /\ pc = "start"
    /\ out' = PrivateCopy(df)
    /\ pc' = "copied"
    /\ UNCHANGED <<fn, args, ret, df, cfg, weights, thr>>

\* the component columns are added to `out` (scoring.py lines 237-265)
DeriveComponents ==
    /\ pc = "copied"
    /\ LET rows == OutRows(out, df)
           d == [columns |-> ColumnsOf(rows), rows |-> rows]
       IN  IF add_risk_components_raises(d)
           THEN out' = out /\ pc' = "raised"
           ELSE /\ out' = [i \in 1..Len(rows) |-> add_risk_components(d, cfg)[i] @@ rows[i]]
                /\ pc' = "weights"
    /\ UNCHANGED <<fn, args, ret, df, cfg, weights, thr>>

\* the caller, or another thread, writes one cell of the shared dataset
UpdateDataset ==
    /\ df.version < MaxUpdates
    /\ \E i \in 1..Len(df.rows), c \in df.columns :
        df' = [df EXCEPT !.rows[i][c] = UpdateValue[c], !.version = @ + 1]
    /\ UNCHANGED <<fn, args, ret, pc, cfg, out, weights, thr>>

NextShared ==
    \/ CopyDataset
    \/ DeriveComponents
    \/ ChooseWeights
    \/ ComputeRiskScore
    \/ ComputeThresholds
    \/ AssignLevel
    \/ StoreThresholds
    \/ UpdateDataset

SpecShared == InitShared /\ [][NextShared]_vars

\* the component columns of `out` are those add_risk_components derives from
\* the source columns of `out` itself, the weights are those chosen on `out`,
\* and each Risk Score is the weighted sum of the components of its row
C21_FromCopy ==
    pc \in {"weights", "score", "quantile", "level", "done"} =>
        LET d == [columns |-> ColumnsOf(out), rows |-> out]
        IN  /\ add_risk_components(d, cfg) =
                  [i \in 1..Len(out) |->
                      [c \in {"S_legal", "S_plan", "S_fake", "ListingGap", "S_price"} |->
                          out[i][c]]]
            /\ pc \in {"score", "quantile", "level", "done"} =>
                  weights = SelectWeights(cfg, out)
            /\ pc \in {"quantile", "level", "done"} =>
                  \A i \in 1..Len(out) :
                      out[i].RiskScore =
                          weights.num["S_legal"] * ValueAtScoring(out[i].S_legal)
                          + weights.num["S_fake"] * ValueAtScoring(out[i].S_fake)
                          + weights.num["S_price"] * ValueAtScoring(out[i].S_price)
                          + weights.num["S_plan"] * ValueAtScoring(out[i].S_plan)

\* a step that takes the copy copies the caller's dataset as it is then; a
\* later step leaves the source columns of the copy as they are; a step that
\* changes the caller's dataset changes nothing of the call, and a step of the
\* call does not change the caller's dataset
C21_Step ==
    /\ (pc = "start" /\ pc' # "start") =>
          /\ df' = df
          /\ Len(out') = Len(df.rows)
          /\ \A i \in 1..Len(out') : \A c \in df.columns : out'[i][c] = df.rows[i][c]
    /\ pc # "start" =>
          /\ Len(out') = Len(out)
          /\ \A i \in 1..Len(out) :
                \A c \in SourceColumns \cap DOMAIN out[i] : out'[i][c] = out[i][c]
    /\ df' # df =>
          /\ pc' = pc
          /\ out' = out
          /\ weights' = weights
          /\ thr' = thr

\* C21: a call of compute_risk_score takes one private copy of the dataset at
\* its start, derives components, weights, scores and thresholds from that
\* copy only, and never writes to the caller's dataset: an update of the
\* dataset after the copy changes nothing of the running call, and the call
\* changes nothing for whoever shares the dataset.
C21_PrivateCopy == [](C21_FromCopy) /\ [][C21_Step]_vars

\* a call has returned the scores of the rows it copied although the caller's
\* dataset has since been switched to percentages
C21_Witness ==
    /\ pc = "done"
    /\ df.version = 2
    /\ "version" \in DOMAIN df
    /\ \E i \in 1..Len(out) :
        /\ out[i].fake = Unit
        /\ out[i].S_fake = Unit
        /\ df.rows[i].fake = 50 * Unit
=============================================================================
